---- MODULE Spec2Model ----
(***************************************************************************)
(* The organization scan of pull_request_fixer.pr_scanner.PRScanner:       *)
(* scan_organization, the producer/consumer queue of _scan_repositories,   *)
(* the organization walker, the first-page fetch and the PR page walker,   *)
(* the two semaphores and the progress-tracker calls; the caller of the    *)
(* scan in cli.scan_and_fix_organization; and the blocking classifier      *)
(* (is_pr_blocked, _extract_failing_checks) applied to one PR node.        *)
(* Further parts, each with a specification of its own:                    *)
(* PRScanner._split_owner_repo applied to one name (SplitSpec); the fix    *)
(* phase of the command line, cli.process_pr with its update, re-run and   *)
(* comment requests under the workers semaphore (FixSpec); and             *)
(* PRFileFixer._fix_pr_with_git (FileFixerSpec).  LiveSpec is the scan     *)
(* under weak fairness.                                                    *)
(*                                                                         *)
(* Scheduling is asyncio's: one step of a coroutine runs from one          *)
(* suspension point to the next.  The suspension points are the graphql    *)
(* requests, a semaphore acquire and the get of the queue.                 *)
(* The queue is unbounded, so a put never suspends.                        *)
(***************************************************************************)
EXTENDS Integers, Sequences, FiniteSets, TLC

(***************************************************************************)
(* Bounds of the model.                                                    *)
(***************************************************************************)
MaxRepos == 3      \* repositories of the organization
MaxPRs == 5        \* open pull requests of one repository
MaxSlots == 2      \* largest max_repo_tasks / max_page_tasks tried
MaxFaults == 1     \* requests that raise in one scan

(***************************************************************************)
(* Program constants.                                                      *)
(***************************************************************************)
DEFAULT_PRS_PAGE_SIZE == 30
COUNT_REPOS_PER_PAGE == 100
LISTING_REPOS_PER_PAGE == 50
LISTING_PRS_PER_PAGE == 1
FETCH_REPOS_PER_PAGE == 1

(***************************************************************************)
(* Values.  Python's None is Null; a cursor is the index of the last item  *)
(* of the page it ends, so a cursor is truthy iff it is not Null.          *)
(* A JSON object is a record; the empty object is the empty function.      *)
(* A string that the code takes apart is a sequence of characters.         *)
(***************************************************************************)
Null == 0
Absent == 0 - 1
EmptyObj == << >>
Org == <<"o">>
Unknown == <<"u", "n", "k", "n", "o", "w", "n">>
Letters == <<"a", "b", "c", "d", "e", "f">>
NameOf(r) == <<Letters[r]>>
NameWithOwner(r) == Org \o <<"/">> \o NameOf(r)
Min(a, b) == IF a < b THEN a ELSE b

\* dict.get(key, default)
Get(obj, key, default) == IF key \in DOMAIN obj THEN obj[key] ELSE default
\* Python truth value of a dict: the empty dict is falsy
Falsy(obj) == DOMAIN obj = {}

(***************************************************************************)
(* The blocking classifier: PRScanner._extract_failing_checks and          *)
(* PRScanner.is_pr_blocked, as the specification (4.1) and                 *)
(* tests/test_pr_blocking.py describe them.  Strings are sequences of      *)
(* characters, so that lower-casing and joining are computed.  A JSON null *)
(* is None where an object is expected, NoneList where a list is and       *)
(* NoneStr where a string is: none of them equals a value of its kind.     *)
(***************************************************************************)
None == [none |-> TRUE]
NoneList == <<None>>
NoneStr == <<"None">>

UPPER ==
    <<"A", "B", "C", "D", "E", "F", "G", "H", "I", "J", "K", "L", "M", "N",
      "O", "P", "Q", "R", "S", "T", "U", "V", "W", "X", "Y", "Z">>
LOWER ==
    <<"a", "b", "c", "d", "e", "f", "g", "h", "i", "j", "k", "l", "m", "n",
      "o", "p", "q", "r", "s", "t", "u", "v", "w", "x", "y", "z">>

\* str.lower()
LowerChar(c) ==
    IF \E i \in DOMAIN UPPER : UPPER[i] = c
    THEN LOWER[CHOOSE i \in DOMAIN UPPER : UPPER[i] = c]
    ELSE c
Lower(s) == [i \in 1 .. Len(s) |-> LowerChar(s[i])]

\* sep.join(strings)
RECURSIVE Join(_, _)
Join(strings, sep) ==
    IF strings = << >> THEN << >>
    ELSE IF Len(strings) = 1 THEN strings[1]
    ELSE strings[1] \o sep \o Join(Tail(strings), sep)

MERGEABLE == <<"M", "E", "R", "G", "E", "A", "B", "L", "E">>
CLEAN == <<"C", "L", "E", "A", "N">>
SUCCESS == <<"S", "U", "C", "C", "E", "S", "S">>
FAILURE == <<"F", "A", "I", "L", "U", "R", "E">>
UNKNOWN == <<"U", "N", "K", "N", "O", "W", "N">>
CONFLICTING == <<"C", "O", "N", "F", "L", "I", "C", "T", "I", "N", "G">>
BLOCKED == <<"B", "L", "O", "C", "K", "E", "D">>
BEHIND == <<"B", "E", "H", "I", "N", "D">>
MERGE_CONFLICTS ==
    <<"M", "e", "r", "g", "e", " ", "c", "o", "n", "f", "l", "i", "c", "t",
      "s">>
FAILING_CHECKS ==
    <<"F", "a", "i", "l", "i", "n", "g", " ", "c", "h", "e", "c", "k", "s",
      ":", " ">>
COMMA == <<",", " ">>
BRANCH_PROTECTION ==
    <<"B", "l", "o", "c", "k", "e", "d", " ", "b", "y", " ", "b", "r", "a",
      "n", "c", "h", " ", "p", "r", "o", "t", "e", "c", "t", "i", "o", "n",
      " ", "r", "u", "l", "e", "s">>
BEHIND_BASE ==
    <<"B", "e", "h", "i", "n", "d", " ", "b", "a", "s", "e", " ", "b", "r",
      "a", "n", "c", "h">>
\* the conclusions of a CheckRun and the states of a StatusContext that fail
FAILING_CONCLUSIONS ==
    {<<"f", "a", "i", "l", "u", "r", "e">>,
     <<"c", "a", "n", "c", "e", "l", "l", "e", "d">>,
     <<"t", "i", "m", "e", "d", "_", "o", "u", "t">>,
     <<"a", "c", "t", "i", "o", "n", "_", "r", "e", "q", "u", "i", "r", "e", "d">>}
FAILING_STATES == {<<"f", "a", "i", "l", "u", "r", "e">>, <<"e", "r", "r", "o", "r">>}

\* the object, the list or the string under a key; the empty one when the
\* key is missing or its value is null
Link(obj, key) == IF key \in DOMAIN obj /\ obj[key] # None THEN obj[key] ELSE EmptyObj
Items(obj, key) == IF key \in DOMAIN obj /\ obj[key] # NoneList THEN obj[key] ELSE << >>
Str(obj, key) == IF key \in DOMAIN obj /\ obj[key] # NoneStr THEN obj[key] ELSE << >>
Present(obj, key) == Str(obj, key) # << >>

\* mutant: the conclusion and the state are compared as they are written
FailingCheckExactCase(entry) ==
    LET typename == Get(entry, "__typename", "")
    IN  IF typename = "CheckRun"
        THEN IF /\ Present(entry, "name")
                /\ Str(entry, "conclusion") \in FAILING_CONCLUSIONS
             THEN <<entry.name>> ELSE << >>
        ELSE IF typename = "StatusContext"
        THEN IF /\ Present(entry, "context")
                /\ Str(entry, "state") \in FAILING_STATES
             THEN <<entry.context>> ELSE << >>
        ELSE << >>
\* mutant: every named CheckRun and StatusContext counts as failing
FailingCheckAnyOutcome(entry) ==
    LET typename == Get(entry, "__typename", "")
    IN  IF typename = "CheckRun" /\ Present(entry, "name") THEN <<entry.name>>
        ELSE IF typename = "StatusContext" /\ Present(entry, "context") THEN <<entry.context>>
        ELSE << >>
\* the identifier one entry of the rollup contributes, if it fails
FailingCheck(entry) ==
    LET typename == Get(entry, "__typename", "")
    IN  IF typename = "CheckRun"
        THEN IF /\ Present(entry, "name")
                /\ Lower(Str(entry, "conclusion")) \in FAILING_CONCLUSIONS
             THEN <<entry.name>> ELSE << >>
        ELSE IF typename = "StatusContext"
        THEN IF /\ Present(entry, "context")
                /\ Lower(Str(entry, "state")) \in FAILING_STATES
             THEN <<entry.context>> ELSE << >>
        ELSE << >>

RECURSIVE FailingChecks(_)
FailingChecks(contexts) ==
    IF contexts = << >> THEN << >>
    ELSE FailingCheck(Head(contexts)) \o FailingChecks(Tail(contexts))

\* commits.nodes[0].commit.statusCheckRollup.contexts.nodes
Contexts(pr) ==
    LET commits == Link(pr, "commits")
        nodes == Items(commits, "nodes")
        commit == IF nodes = << >> THEN EmptyObj ELSE Link(nodes[1], "commit")
        rollup == Link(commit, "statusCheckRollup")
    IN  Items(Link(rollup, "contexts"), "nodes")

\* mutant: a PR without check entries is reported as having a failing check
_extract_failing_checksDegraded(pr) ==
    IF Contexts(pr) = << >> THEN <<UNKNOWN>> ELSE FailingChecks(Contexts(pr))
\* _extract_failing_checks: the rollup of the PR's latest commit node
_extract_failing_checks(pr) == FailingChecks(Contexts(pr))

\* mutant: every mergeable other than MERGEABLE counts as a conflict
is_pr_blockedUnknown(pr) ==
    LET failing == _extract_failing_checks(pr)
        mergeable == Str(pr, "mergeable")
        merge_state == Str(pr, "mergeStateStatus")
        r1 == IF mergeable # MERGEABLE THEN <<MERGE_CONFLICTS>> ELSE << >>
        r2 == IF failing # << >>
              THEN r1 \o <<FAILING_CHECKS \o Join(failing, COMMA)>> ELSE r1
        r3 == IF merge_state = BLOCKED THEN Append(r2, BRANCH_PROTECTION) ELSE r2
        reasons == IF merge_state = BEHIND THEN Append(r3, BEHIND_BASE) ELSE r3
    IN  <<Len(reasons) > 0, reasons>>
\* mutant: one reason for each failing check
is_pr_blockedPerCheck(pr) ==
    LET failing == _extract_failing_checks(pr)
        mergeable == Str(pr, "mergeable")
        merge_state == Str(pr, "mergeStateStatus")
        r1 == IF mergeable = CONFLICTING THEN <<MERGE_CONFLICTS>> ELSE << >>
        r2 == r1 \o [i \in 1 .. Len(failing) |-> FAILING_CHECKS \o failing[i]]
        r3 == IF merge_state = BLOCKED THEN Append(r2, BRANCH_PROTECTION) ELSE r2
        reasons == IF merge_state = BEHIND THEN Append(r3, BEHIND_BASE) ELSE r3
    IN  <<Len(reasons) > 0, reasons>>
\* mutant: branch protection is reported ahead of the failing checks
is_pr_blockedReordered(pr) ==
    LET failing == _extract_failing_checks(pr)
        mergeable == Str(pr, "mergeable")
        merge_state == Str(pr, "mergeStateStatus")
        r1 == IF mergeable = CONFLICTING THEN <<MERGE_CONFLICTS>> ELSE << >>
        r2 == IF merge_state = BLOCKED THEN Append(r1, BRANCH_PROTECTION) ELSE r1
        r3 == IF failing # << >>
              THEN Append(r2, FAILING_CHECKS \o Join(failing, COMMA)) ELSE r2
        reasons == IF merge_state = BEHIND THEN Append(r3, BEHIND_BASE) ELSE r3
    IN  <<Len(reasons) > 0, reasons>>
\* is_pr_blocked: <<is_blocked, reasons>>
is_pr_blocked(pr) ==
    LET failing == _extract_failing_checks(pr)
        mergeable == Str(pr, "mergeable")
        merge_state == Str(pr, "mergeStateStatus")
        r1 == IF mergeable = CONFLICTING THEN <<MERGE_CONFLICTS>> ELSE << >>
        r2 == IF failing # << >>
              THEN r1 \o <<FAILING_CHECKS \o Join(failing, COMMA)>> ELSE r1
        r3 == IF merge_state = BLOCKED THEN Append(r2, BRANCH_PROTECTION) ELSE r2
        reasons == IF merge_state = BEHIND THEN Append(r3, BEHIND_BASE) ELSE r3
    IN  <<Len(reasons) > 0, reasons>>

(***************************************************************************)
(* The GraphQL transport and the organization behind it.                   *)
(* server.nRepos repositories in listing order; repository r has           *)
(* server.prCount[r] open PRs numbered 1.., or no pullRequests field at    *)
(* all when prCount[r] = Absent.  The transport returns the data object    *)
(* directly, or inside a {"data": ...} envelope when server.envelope.      *)
(* server.profile shifts the merge state and the checks of every PR: a PR  *)
(* that is blocked under one profile is not blocked under the other.       *)
(***************************************************************************)
\* nodes the server puts on a page asked with first = n: the model's pages
\* have ListingPageNodes and PrPageNodes nodes where the code asks 50 and 30
ListingPageNodes == 2
PrPageNodes == 2
ServerPageLen(n) ==
    IF n = LISTING_REPOS_PER_PAGE THEN ListingPageNodes
    ELSE IF n = DEFAULT_PRS_PAGE_SIZE THEN PrPageNodes
    ELSE n

\* isDraft of PR number n: every third PR starting at 2 is a draft, every
\* third starting at 3 has no isDraft key
DraftOf(n) == IF n % 3 = 2 THEN "true" ELSE IF n % 3 = 0 THEN "absent" ELSE "false"

Profiles == {0, 1}

\* the statusCheckRollup of a commit with one CheckRun of that conclusion
Commits(conclusion) ==
    [nodes |-> <<[commit |-> [statusCheckRollup |-> [contexts |-> [nodes |->
        <<[__typename |-> "CheckRun", name |-> <<"t">>, conclusion |-> conclusion]>>]]]]>>]

\* mergeable, mergeStateStatus and commits of PR number n
MergeFields(profile, n) ==
    LET k == (n + profile) % 4
    IN  IF k = 0 THEN [mergeable |-> MERGEABLE, mergeStateStatus |-> CLEAN,
                       commits |-> [nodes |-> << >>]]
        ELSE IF k = 1 THEN [mergeable |-> CONFLICTING]
        ELSE IF k = 2 THEN [mergeable |-> MERGEABLE, mergeStateStatus |-> CLEAN,
                            commits |-> Commits(SUCCESS)]
        ELSE [mergeable |-> MERGEABLE, mergeStateStatus |-> BEHIND,
              commits |-> Commits(FAILURE)]

PRNode(profile, n) ==
    (IF DraftOf(n) = "absent" THEN [number |-> n]
     ELSE [number |-> n, isDraft |-> (DraftOf(n) = "true")]) @@ MergeFields(profile, n)

\* one page of a connection of `total` items: the items after `cursor`
PageInfo(total, cursor, len) ==
    [hasNextPage |-> cursor + len < total,
     endCursor |-> IF cursor < total THEN Min(cursor + len, total) ELSE Null]
SeqOfRange(lo, hi, F(_)) == [i \in 1 .. (IF hi < lo THEN 0 ELSE hi - lo + 1) |-> F(lo + i - 1)]

PullRequests(srv, r, prsPerPage, prCursor) ==
    LET total == srv.prCount[r]
        len == ServerPageLen(prsPerPage)
        node(n) == PRNode(srv.profile, n)
    IN  [totalCount |-> total,
         nodes |-> SeqOfRange(prCursor + 1, Min(prCursor + len, total), node),
         pageInfo |-> PageInfo(total, prCursor, len)]

RepoNode(srv, r, prsPerPage, prCursor) ==
    IF srv.prCount[r] = Absent
    THEN [name |-> NameOf(r), nameWithOwner |-> NameWithOwner(r)]
    ELSE [name |-> NameOf(r), nameWithOwner |-> NameWithOwner(r),
          pullRequests |-> PullRequests(srv, r, prsPerPage, prCursor)]

\* the data object of the org-repos-with-open-PRs query; an organization
\* the server does not know gives no organization
OrgReposData(srv, vars) ==
    IF vars.orgName # Org THEN EmptyObj ELSE
    LET len == ServerPageLen(vars.reposPerPage)
        after == Get(vars, "repoCursor", Null)
        prAfter == Get(vars, "prCursor", Null)
        lo == after + 1
        hi == Min(after + len, srv.nRepos)
        node(r) == RepoNode(srv, r, vars.prsPerPage, prAfter)
    IN  [organization |->
            [repositories |->
                [totalCount |-> srv.nRepos,
                 nodes |-> SeqOfRange(lo, hi, node),
                 pageInfo |-> PageInfo(srv.nRepos, after, len)]]]

\* the data object of the counting query
OrgCountData(srv, vars) ==
    IF vars.orgName # Org THEN EmptyObj
    ELSE [organization |-> [repositories |-> [totalCount |-> srv.nRepos]]]

\* what graphql() returns
Graphql(srv, data) == IF srv.envelope THEN [data |-> data] ELSE data

(***************************************************************************)
(* Pure parts of PRScanner.                                                *)
(***************************************************************************)
\* the position of the first "/" of a string, 0 when there is none
FirstSlash(full_name) ==
    IF \E i \in 1 .. Len(full_name) : full_name[i] = "/"
    THEN CHOOSE i \in 1 .. Len(full_name) :
            /\ full_name[i] = "/"
            /\ \A j \in 1 .. i - 1 : full_name[j] # "/"
    ELSE 0

\* _split_owner_repo: full_name.split("/", 1)
_split_owner_repo(full_name) ==
    LET i == FirstSlash(full_name)
    IN  IF i = 0 THEN <<Unknown, Unknown>>
        ELSE <<SubSeq(full_name, 1, i - 1), SubSeq(full_name, i + 1, Len(full_name))>>

\* mutant: only PRs the classifier finds blocked pass the filter
_should_include_prBlocked(pr_node, include_drafts) ==
    /\ is_pr_blocked(pr_node)[1]
    /\ ~(~include_drafts /\ Get(pr_node, "isDraft", FALSE))
\* mutant: the draft filter lets every node through
_should_include_prAll(pr_node, include_drafts) == TRUE
_should_include_pr(pr_node, include_drafts) ==
    IF ~include_drafts /\ Get(pr_node, "isDraft", FALSE) THEN FALSE ELSE TRUE

\* result.get("data", {}).get("organization", {})
OrgDataOf(result) == Get(Get(result, "data", EmptyObj), "organization", EmptyObj)

\* _count_org_repositories, on a result that was returned
_count_org_repositories(result) ==
    LET org_data == OrgDataOf(result)
    IN  IF Falsy(org_data) THEN 0
        ELSE Get(Get(org_data, "repositories", EmptyObj), "totalCount", 0)

\* mutant: a repository passes the filter whatever its totalCount
HasOpenPRsAnyCount(node) == Get(Get(node, "pullRequests", EmptyObj), "totalCount", 0) >= 0
\* the filter of the listing walker: only repositories with open PRs
HasOpenPRs(node) == Get(Get(node, "pullRequests", EmptyObj), "totalCount", 0) > 0
\* mutant: an absent organization does not end the listing
ListingPageNoBreak(result) ==
    LET org_data == OrgDataOf(result)
        repos == Get(org_data, "repositories", EmptyObj)
        page_info == Get(repos, "pageInfo", EmptyObj)
    IN  IF Falsy(org_data)
        THEN [yields |-> << >>, has_next_page |-> TRUE, end_cursor |-> Null]
        ELSE [yields |-> SelectSeq(Get(repos, "nodes", << >>), HasOpenPRs),
              has_next_page |-> Get(page_info, "hasNextPage", FALSE),
              end_cursor |-> Get(page_info, "endCursor", Null)]
\* the body of one iteration of _iter_org_repositories_with_open_prs, on a
\* result that was returned: the nodes it yields and how the loop goes on
ListingPage(result) ==
    LET org_data == OrgDataOf(result)
        repos == Get(org_data, "repositories", EmptyObj)
        page_info == Get(repos, "pageInfo", EmptyObj)
    IN  IF Falsy(org_data)
        THEN [yields |-> << >>, has_next_page |-> FALSE, end_cursor |-> Null]
        ELSE [yields |-> SelectSeq(Get(repos, "nodes", << >>), HasOpenPRs),
              has_next_page |-> Get(page_info, "hasNextPage", FALSE),
              end_cursor |-> Get(page_info, "endCursor", Null)]

\* the first repository node of `nodes` named repo_name, or EmptyObj
FindRepo(nodes, repo_name) ==
    LET hits == SelectSeq(nodes, LAMBDA n : Get(n, "name", << >>) = repo_name)
    IN  IF hits = << >> THEN EmptyObj ELSE Head(hits)

\* _fetch_repo_prs_first_page, on a result that was returned
_fetch_repo_prs_first_page(result, repo_name) ==
    LET org_data == OrgDataOf(result)
        nodes == Get(Get(org_data, "repositories", EmptyObj), "nodes", << >>)
        repo_node == FindRepo(nodes, repo_name)
        prs == Get(repo_node, "pullRequests", EmptyObj)
    IN  IF Falsy(org_data) \/ nodes = << >> \/ Falsy(repo_node)
        THEN [pr_nodes |-> << >>, page_info |-> EmptyObj]
        ELSE [pr_nodes |-> Get(prs, "nodes", << >>),
              page_info |-> Get(prs, "pageInfo", EmptyObj)]

\* mutant: the walker takes every page for the last one
WalkerPageNoNext(result, repo_name) ==
    LET org_data == OrgDataOf(result)
        nodes == Get(Get(org_data, "repositories", EmptyObj), "nodes", << >>)
        repo_node == FindRepo(nodes, repo_name)
        prs == Get(repo_node, "pullRequests", EmptyObj)
    IN  IF Falsy(org_data) \/ nodes = << >> \/ Falsy(repo_node)
        THEN [found |-> FALSE, pr_nodes |-> << >>,
              has_next_page |-> FALSE, cursor |-> Null]
        ELSE [found |-> TRUE, pr_nodes |-> Get(prs, "nodes", << >>),
              has_next_page |-> FALSE,
              cursor |-> Get(Get(prs, "pageInfo", EmptyObj), "endCursor", Null)]

\* one iteration of _iter_repo_open_prs_pages, on a result that was returned
WalkerPage(result, repo_name) ==
    LET org_data == OrgDataOf(result)
        nodes == Get(Get(org_data, "repositories", EmptyObj), "nodes", << >>)
        repo_node == FindRepo(nodes, repo_name)
        prs == Get(repo_node, "pullRequests", EmptyObj)
        page_info == Get(prs, "pageInfo", EmptyObj)
    IN  IF Falsy(org_data) \/ nodes = << >> \/ Falsy(repo_node)
        THEN [found |-> FALSE, pr_nodes |-> << >>,
              has_next_page |-> FALSE, cursor |-> Null]
        ELSE [found |-> TRUE, pr_nodes |-> Get(prs, "nodes", << >>),
              has_next_page |-> Get(page_info, "hasNextPage", FALSE),
              cursor |-> Get(page_info, "endCursor", Null)]

\* the variables of the requests
CountVars(organization) ==
    [orgName |-> organization, reposPerPage |-> COUNT_REPOS_PER_PAGE]
\* mutant: the listing request never carries the cursor
ListingVarsNoCursor(organization, end_cursor) ==
    [orgName |-> organization,
     reposPerPage |-> LISTING_REPOS_PER_PAGE,
     prsPerPage |-> LISTING_PRS_PER_PAGE]
ListingVars(organization, end_cursor) ==
    LET base == [orgName |-> organization,
                 reposPerPage |-> LISTING_REPOS_PER_PAGE,
                 prsPerPage |-> LISTING_PRS_PER_PAGE]
    IN  IF end_cursor # Null THEN base @@ [repoCursor |-> end_cursor] ELSE base
FirstPageVars(owner) ==
    [orgName |-> owner, reposPerPage |-> FETCH_REPOS_PER_PAGE,
     prsPerPage |-> DEFAULT_PRS_PAGE_SIZE]
WalkerVars(owner, cursor) ==
    [orgName |-> owner, reposPerPage |-> FETCH_REPOS_PER_PAGE,
     prsPerPage |-> DEFAULT_PRS_PAGE_SIZE, prCursor |-> cursor]

(***************************************************************************)
(* State.                                                                  *)
(***************************************************************************)
VARIABLES
    scanner,        \* max_repo_tasks, max_page_tasks and the include_drafts argument
    server,         \* the transport and the organization behind it
    faults,         \* requests that raised so far
    outer,          \* scan_organization: "count", "iter", "exhausted", "closed"
    inner,          \* _scan_repositories: "none", "get", "yielded", "finally", "done"
    producer_task,  \* "none", "start", "listing", "gather", "done"
    listing_vars,   \* variables of the listing request in flight
    tasks,          \* producer's list of spawned repository tasks
    task,           \* state of the task of each repository
    local,          \* locals of each task: pr_count, cursor, page in hand
    pr_queue,       \* the queue of _scan_repositories
    repo_semaphore, \* free slots of repo_semaphore
    page_semaphore, \* free slots of page_semaphore
    tracker,        \* calls received by the progress tracker
    puts,           \* every item put on the queue so far, in order
    yielded,        \* every triple handed to the caller so far, in order
    sent,           \* per connection, the cursor of each request issued
    got,            \* per connection, the pageInfo of each response returned
    classifier,     \* a PR node handed to the classifier, and what was returned
    split,          \* a full name handed to _split_owner_repo, and what was returned
    fix,            \* the fix phase of cli.scan_and_fix_organization and its process_pr tasks
    file_fixer      \* one call of PRFileFixer._fix_pr_with_git

vars == <<scanner, server, faults, outer, inner, producer_task, listing_vars,
          tasks, task, local, pr_queue, repo_semaphore, page_semaphore,
          tracker, puts, yielded, sent, got, classifier, split, fix, file_fixer>>

Repos == 1 .. MaxRepos
Listing == 0                 \* the repository connection, in sent and got
NoneItem == << >>            \* the sentinel
PrCounts == {Absent, 0, 1, MaxPRs}
Raised == [raised |-> TRUE]
\* no PR node was handed to the classifier: failing and blocked hold what
\* _extract_failing_checks and is_pr_blocked returned, once they have
Unclassified == [pr_data |-> EmptyObj, failing |-> << >>, blocked |-> << >>]
\* no full name was handed to _split_owner_repo
Unsplit == [full_name |-> << >>, returned |-> << >>]
\* scan_and_fix_organization has not begun
NotFixing == [phase |-> "none"]
\* _fix_pr_with_git was not called
NotCalled == [pc |-> "none"]

\* the repository a node stands for
RepoOf(full_name) == CHOOSE r \in Repos : NameWithOwner(r) = full_name
owner(r) == _split_owner_repo(NameWithOwner(r))[1]
repo_name(r) == _split_owner_repo(NameWithOwner(r))[2]

\* outcomes of a request: it returns, or it raises while faults remain
Outcomes == IF faults < MaxFaults THEN {"returns", "raises"} ELSE {"returns"}

\* the pageInfo the server returned for the connection of repository r,
\* wherever the scanner looks for it
ListingInfoOf(data) == data.organization.repositories.pageInfo
PrInfoOf(data, r) ==
    LET hit == FindRepo(data.organization.repositories.nodes, NameOf(r))
    IN  IF Falsy(data) \/ Falsy(hit) \/ "pullRequests" \notin DOMAIN hit
        THEN [missing |-> TRUE]
        ELSE hit.pullRequests.pageInfo

Init ==
    /\ scanner \in [max_repo_tasks : 1 .. MaxSlots,
                    max_page_tasks : 1 .. MaxSlots,
                    include_drafts : BOOLEAN]
    /\ server \in [envelope : BOOLEAN,
                   nRepos : 0 .. MaxRepos,
                   prCount : [Repos -> PrCounts],
                   profile : Profiles]
    /\ \A r \in Repos : r > server.nRepos => server.prCount[r] = Absent
    /\ faults = 0
    /\ outer = "count"
    /\ inner = "none"
    /\ producer_task = "none"
    /\ listing_vars = EmptyObj
    /\ tasks = << >>
    /\ task = [r \in Repos |-> "none"]
    /\ local = [r \in Repos |-> [pr_count |-> 0, cursor |-> Null, page |-> << >>,
                                 has_next_page |-> FALSE]]
    /\ pr_queue = << >>
    /\ repo_semaphore = scanner.max_repo_tasks
    /\ page_semaphore = scanner.max_page_tasks
    /\ tracker = [totals |-> << >>, started |-> [r \in Repos |-> 0],
                  completed |-> [r \in Repos |-> << >>], errors |-> 0]
    /\ puts = << >>
    /\ yielded = << >>
    /\ sent = [c \in {Listing} \cup Repos |-> << >>]
    /\ got = [c \in {Listing} \cup Repos |-> << >>]
    /\ classifier = Unclassified
    /\ split = Unsplit
    /\ fix = NotFixing
    /\ file_fixer = NotCalled

(***************************************************************************)
(* Steps.                                                                  *)
(***************************************************************************)
\* the triples process_repository puts on the queue for a list of PR nodes
Triples(r, pr_nodes) ==
    LET keep == SelectSeq(pr_nodes, LAMBDA n : _should_include_pr(n, scanner.include_drafts))
    IN  [i \in 1 .. Len(keep) |-> <<owner(r), repo_name(r), keep[i]>>]

Finished(r) == task[r] = "done"

\* mutant: a counting query that raises ends the scan
CountResponseFatal ==
    /\ outer = "count"
    /\ \E outcome \in Outcomes :
        LET total == _count_org_repositories(
                        Graphql(server, OrgCountData(server, CountVars(Org))))
        IN  /\ faults' = IF outcome = "raises" THEN faults + 1 ELSE faults
            /\ tracker' = IF outcome = "raises" THEN tracker
                          ELSE [tracker EXCEPT !.totals = Append(@, total)]
            /\ outer' = IF outcome = "raises" THEN "exhausted" ELSE "iter"
            /\ inner' = IF outcome = "raises" THEN "done" ELSE "get"
            /\ producer_task' = IF outcome = "raises" THEN "done" ELSE "start"
    /\ UNCHANGED <<split, fix, file_fixer, classifier, scanner, server, listing_vars, tasks, task, local, pr_queue,
                   repo_semaphore, page_semaphore, puts, yielded, sent, got>>
\* mutant: the total is not reported to the tracker
CountResponseNoReport ==
    /\ outer = "count"
    /\ \E outcome \in Outcomes :
        /\ faults' = IF outcome = "raises" THEN faults + 1 ELSE faults
        /\ tracker' = tracker
    /\ outer' = "iter"
    /\ inner' = "get"
    /\ producer_task' = "start"
    /\ UNCHANGED <<split, fix, file_fixer, classifier, scanner, server, listing_vars, tasks, task, local, pr_queue,
                   repo_semaphore, page_semaphore, puts, yielded, sent, got>>
\* scan_organization up to its first wait on the queue: the counting query
\* returns or raises, the total goes to the tracker, _scan_repositories
\* creates the queue and the producer task and waits for the first item
CountResponse ==
    /\ outer = "count"
    /\ \E outcome \in Outcomes :
        LET total == IF outcome = "returns"
                     THEN _count_org_repositories(
                            Graphql(server, OrgCountData(server, CountVars(Org))))
                     ELSE 0
        IN  /\ faults' = IF outcome = "raises" THEN faults + 1 ELSE faults
            /\ tracker' = [tracker EXCEPT !.totals = Append(@, total)]
    /\ outer' = "iter"
    /\ inner' = "get"
    /\ producer_task' = "start"
    /\ UNCHANGED <<split, fix, file_fixer, classifier, scanner, server, listing_vars, tasks, task, local, pr_queue,
                   repo_semaphore, page_semaphore, puts, yielded, sent, got>>

\* producer() starts: the walker issues its first listing request
ProducerStart ==
    /\ producer_task = "start"
    /\ producer_task' = "listing"
    /\ listing_vars' = ListingVars(Org, Null)
    /\ sent' = [sent EXCEPT ![Listing] = Append(@, Get(listing_vars', "repoCursor", Null))]
    /\ UNCHANGED <<split, fix, file_fixer, classifier, scanner, server, faults, outer, inner, tasks, task, local,
                   pr_queue, repo_semaphore, page_semaphore, tracker, puts,
                   yielded, got>>

\* mutant: the producer spawns a task only for a free repository slot
ListingResponseBounded ==
    /\ producer_task = "listing"
    /\ \E outcome \in Outcomes :
        LET data == OrgReposData(server, listing_vars)
            page == IF outcome = "returns"
                    THEN ListingPage(Graphql(server, data))
                    ELSE [yields |-> << >>, has_next_page |-> FALSE, end_cursor |-> Null]
            found == [i \in 1 .. Len(page.yields) |->
                        RepoOf(Get(page.yields[i], "nameWithOwner", << >>))]
            born == SubSeq(found, 1, Min(Len(found), repo_semaphore))
            all == tasks \o born
        IN  /\ faults' = IF outcome = "raises" THEN faults + 1 ELSE faults
            /\ got' = [got EXCEPT ![Listing] =
                        Append(@, IF outcome = "returns" THEN ListingInfoOf(data) ELSE Raised)]
            /\ tasks' = all
            /\ task' = [r \in Repos |->
                        IF \E i \in 1 .. Len(born) : born[i] = r THEN "created" ELSE task[r]]
            /\ IF page.has_next_page
               THEN /\ listing_vars' = ListingVars(Org, page.end_cursor)
                    /\ sent' = [sent EXCEPT ![Listing] =
                                Append(@, Get(listing_vars', "repoCursor", Null))]
                    /\ UNCHANGED <<producer_task, pr_queue, puts>>
               ELSE /\ UNCHANGED <<listing_vars, sent>>
                    /\ IF all # << >>
                       THEN /\ producer_task' = "gather"
                            /\ UNCHANGED <<pr_queue, puts>>
                       ELSE /\ producer_task' = "done"
                            /\ pr_queue' = Append(pr_queue, NoneItem)
                            /\ puts' = Append(puts, NoneItem)
    /\ UNCHANGED <<split, fix, file_fixer, classifier, scanner, server, outer, inner, local, repo_semaphore,
                   page_semaphore, tracker, yielded>>
\* the producer from one listing response to its next suspension: a task is
\* created for every node the walker yields; then the next listing request,
\* or the gather of the tasks, or (no task) the sentinel in the finally
ListingResponse ==
    /\ producer_task = "listing"
    /\ \E outcome \in Outcomes :
        \E data \in {OrgReposData(server, listing_vars)} :
        \E page \in {IF outcome = "returns"
                     THEN ListingPage(Graphql(server, data))
                     ELSE [yields |-> << >>, has_next_page |-> FALSE, end_cursor |-> Null]} :
        \E born \in {[i \in 1 .. Len(page.yields) |->
                        RepoOf(Get(page.yields[i], "nameWithOwner", << >>))]} :
        LET all == tasks \o born
        IN  /\ faults' = IF outcome = "raises" THEN faults + 1 ELSE faults
            /\ got' = [got EXCEPT ![Listing] =
                        Append(@, IF outcome = "returns" THEN ListingInfoOf(data) ELSE Raised)]
            /\ tasks' = all
            /\ task' = [r \in Repos |->
                        IF \E i \in 1 .. Len(born) : born[i] = r THEN "created" ELSE task[r]]
            /\ IF page.has_next_page
               THEN /\ listing_vars' = ListingVars(Org, page.end_cursor)
                    /\ sent' = [sent EXCEPT ![Listing] =
                                Append(@, Get(listing_vars', "repoCursor", Null))]
                    /\ UNCHANGED <<producer_task, pr_queue, puts>>
               ELSE /\ UNCHANGED <<listing_vars, sent>>
                    /\ IF all # << >>
                       THEN /\ producer_task' = "gather"
                            /\ UNCHANGED <<pr_queue, puts>>
                       ELSE /\ producer_task' = "done"
                            /\ pr_queue' = Append(pr_queue, NoneItem)
                            /\ puts' = Append(puts, NoneItem)
    /\ UNCHANGED <<split, fix, file_fixer, classifier, scanner, server, outer, inner, local, repo_semaphore,
                   page_semaphore, tracker, yielded>>

\* mutant: the producer does not wait for the tasks it spawned
ProducerFinishNoGather ==
    /\ producer_task = "gather"
    /\ producer_task' = "done"
    /\ pr_queue' = Append(pr_queue, NoneItem)
    /\ puts' = Append(puts, NoneItem)
    /\ UNCHANGED <<split, fix, file_fixer, classifier, scanner, server, faults, outer, inner, listing_vars, tasks,
                   task, local, repo_semaphore, page_semaphore, tracker,
                   yielded, sent, got>>

\* gather returns once every task of the list is finished; the finally puts
\* the sentinel and the producer task ends
ProducerFinish ==
    /\ producer_task = "gather"
    /\ \A i \in 1 .. Len(tasks) : Finished(tasks[i])
    /\ producer_task' = "done"
    /\ pr_queue' = Append(pr_queue, NoneItem)
    /\ puts' = Append(puts, NoneItem)
    /\ UNCHANGED <<split, fix, file_fixer, classifier, scanner, server, faults, outer, inner, listing_vars, tasks,
                   task, local, repo_semaphore, page_semaphore, tracker,
                   yielded, sent, got>>

\* mutant: the task does not tell the tracker that it starts
TaskStartSilent(r) ==
    /\ task[r] = "created"
    /\ repo_semaphore > 0
    /\ repo_semaphore' = repo_semaphore - 1
    /\ sent' = [sent EXCEPT ![r] = Append(@, Get(FirstPageVars(owner(r)), "prCursor", Null))]
    /\ task' = [task EXCEPT ![r] = "first_req"]
    /\ UNCHANGED <<split, fix, file_fixer, classifier, scanner, server, faults, outer, inner, producer_task,
                   listing_vars, tasks, local, pr_queue, page_semaphore, puts,
                   yielded, got, tracker>>
\* mutant: process_repository does not wait for a slot of repo_semaphore
TaskStartNoSemaphore(r) ==
    /\ task[r] = "created"
    /\ repo_semaphore' = repo_semaphore - 1
    /\ tracker' = [tracker EXCEPT !.started[r] = @ + 1]
    /\ sent' = [sent EXCEPT ![r] = Append(@, Get(FirstPageVars(owner(r)), "prCursor", Null))]
    /\ task' = [task EXCEPT ![r] = "first_req"]
    /\ UNCHANGED <<split, fix, file_fixer, classifier, scanner, server, faults, outer, inner, producer_task,
                   listing_vars, tasks, local, pr_queue, page_semaphore, puts,
                   yielded, got>>

\* process_repository enters repo_semaphore, tells the tracker and issues
\* the request of the first PR page
TaskStart(r) ==
    /\ task[r] = "created"
    /\ repo_semaphore > 0
    /\ repo_semaphore' = repo_semaphore - 1
    /\ tracker' = [tracker EXCEPT !.started[r] = @ + 1]
    /\ sent' = [sent EXCEPT ![r] = Append(@, Get(FirstPageVars(owner(r)), "prCursor", Null))]
    /\ task' = [task EXCEPT ![r] = "first_req"]
    /\ UNCHANGED <<split, fix, file_fixer, classifier, scanner, server, faults, outer, inner, producer_task,
                   listing_vars, tasks, local, pr_queue, page_semaphore, puts,
                   yielded, got>>

\* the first page arrives (or the request raises and the fetch returns
\* [], {}): its PRs are enqueued; then the walker is entered, or the
\* repository is complete and the slot released
FirstPageResponse(r) ==
    /\ task[r] = "first_req"
    /\ \E outcome \in Outcomes :
        \E data \in {OrgReposData(server, FirstPageVars(owner(r)))} :
        \E page \in {IF outcome = "returns"
                     THEN _fetch_repo_prs_first_page(Graphql(server, data), repo_name(r))
                     ELSE [pr_nodes |-> << >>, page_info |-> EmptyObj]} :
        \E items \in {Triples(r, page.pr_nodes)} :
        LET has_next == Get(page.page_info, "hasNextPage", FALSE)
            end_cursor == Get(page.page_info, "endCursor", Null)
        IN  /\ faults' = IF outcome = "raises" THEN faults + 1 ELSE faults
            /\ got' = [got EXCEPT ![r] =
                        Append(@, IF outcome = "returns" THEN PrInfoOf(data, r) ELSE Raised)]
            /\ pr_queue' = pr_queue \o items
            /\ puts' = puts \o items
            /\ local' = [local EXCEPT ![r].pr_count = Len(items), ![r].cursor = end_cursor]
            /\ IF has_next /\ end_cursor # Null
               THEN /\ task' = [task EXCEPT ![r] = "wait_page"]
                    /\ UNCHANGED <<tracker, repo_semaphore>>
               ELSE /\ task' = [task EXCEPT ![r] = "done"]
                    /\ tracker' = [tracker EXCEPT !.completed[r] = Append(@, Len(items))]
                    /\ repo_semaphore' = repo_semaphore + 1
    /\ UNCHANGED <<split, fix, file_fixer, classifier, scanner, server, outer, inner, producer_task, listing_vars,
                   tasks, page_semaphore, yielded, sent>>

\* mutant: the walker takes two slots of page_semaphore for a page
WalkerAcquireGreedy(r) ==
    /\ task[r] = "wait_page"
    /\ page_semaphore > 0
    /\ page_semaphore' = page_semaphore - 2
    /\ sent' = [sent EXCEPT ![r] =
                Append(@, Get(WalkerVars(owner(r), local[r].cursor), "prCursor", Null))]
    /\ task' = [task EXCEPT ![r] = "page_req"]
    /\ UNCHANGED <<split, fix, file_fixer, classifier, scanner, server, faults, outer, inner, producer_task,
                   listing_vars, tasks, local, pr_queue, repo_semaphore,
                   tracker, puts, yielded, got>>
\* the walker enters page_semaphore and issues the request of the next page
WalkerAcquire(r) ==
    /\ task[r] = "wait_page"
    /\ page_semaphore > 0
    /\ page_semaphore' = page_semaphore - 1
    /\ sent' = [sent EXCEPT ![r] =
                Append(@, Get(WalkerVars(owner(r), local[r].cursor), "prCursor", Null))]
    /\ task' = [task EXCEPT ![r] = "page_req"]
    /\ UNCHANGED <<split, fix, file_fixer, classifier, scanner, server, faults, outer, inner, producer_task,
                   listing_vars, tasks, local, pr_queue, repo_semaphore,
                   tracker, puts, yielded, got>>

\* a later page arrives: the walker has its nodes in hand, inside
\* page_semaphore; or the request raises, or the repository is not on the
\* page, and the walker breaks, which ends the repository
PageResponse(r) ==
    /\ task[r] = "page_req"
    /\ \E outcome \in Outcomes :
        \E data \in {OrgReposData(server, WalkerVars(owner(r), local[r].cursor))} :
        \E page \in {IF outcome = "returns"
                     THEN WalkerPage(Graphql(server, data), repo_name(r))
                     ELSE [found |-> FALSE, pr_nodes |-> << >>,
                           has_next_page |-> FALSE, cursor |-> Null]} :
            /\ faults' = IF outcome = "raises" THEN faults + 1 ELSE faults
            /\ got' = [got EXCEPT ![r] =
                        Append(@, IF outcome = "returns" THEN PrInfoOf(data, r) ELSE Raised)]
            /\ IF page.found
               THEN /\ task' = [task EXCEPT ![r] = "page_yield"]
                    /\ local' = [local EXCEPT ![r].page = page.pr_nodes,
                                              ![r].has_next_page = page.has_next_page,
                                              ![r].cursor = page.cursor]
                    /\ UNCHANGED <<page_semaphore, repo_semaphore, tracker>>
               ELSE /\ task' = [task EXCEPT ![r] = "done"]
                    /\ page_semaphore' = page_semaphore + 1
                    /\ repo_semaphore' = repo_semaphore + 1
                    /\ tracker' = [tracker EXCEPT !.completed[r] = Append(@, local[r].pr_count)]
                    /\ UNCHANGED local
    /\ UNCHANGED <<split, fix, file_fixer, classifier, scanner, server, outer, inner, producer_task, listing_vars,
                   tasks, pr_queue, puts, yielded, sent>>

\* mutant: the walker keeps its slot of page_semaphore after the hand-over
WalkerDeliverKeepsSlot(r) ==
    /\ task[r] = "page_yield"
    /\ LET items == Triples(r, local[r].page)
           count == local[r].pr_count + Len(items)
       IN  /\ pr_queue' = pr_queue \o items
           /\ puts' = puts \o items
           /\ local' = [local EXCEPT ![r].pr_count = count, ![r].page = << >>]
           /\ page_semaphore' = page_semaphore
           /\ IF local[r].has_next_page
              THEN /\ task' = [task EXCEPT ![r] = "wait_page"]
                   /\ UNCHANGED <<tracker, repo_semaphore>>
              ELSE /\ task' = [task EXCEPT ![r] = "done"]
                   /\ tracker' = [tracker EXCEPT !.completed[r] = Append(@, count)]
                   /\ repo_semaphore' = repo_semaphore + 1
    /\ UNCHANGED <<split, fix, file_fixer, classifier, scanner, server, faults, outer, inner, producer_task,
                   listing_vars, tasks, yielded, sent, got>>
\* mutant: the walker's nodes are counted before the draft filter
WalkerDeliverCountAll(r) ==
    /\ task[r] = "page_yield"
    /\ LET items == Triples(r, local[r].page)
           count == local[r].pr_count + Len(local[r].page)
       IN  /\ pr_queue' = pr_queue \o items
           /\ puts' = puts \o items
           /\ local' = [local EXCEPT ![r].pr_count = count, ![r].page = << >>]
           /\ page_semaphore' = page_semaphore + 1
           /\ IF local[r].has_next_page
              THEN /\ task' = [task EXCEPT ![r] = "wait_page"]
                   /\ UNCHANGED <<tracker, repo_semaphore>>
              ELSE /\ task' = [task EXCEPT ![r] = "done"]
                   /\ tracker' = [tracker EXCEPT !.completed[r] = Append(@, count)]
                   /\ repo_semaphore' = repo_semaphore + 1
    /\ UNCHANGED <<split, fix, file_fixer, classifier, scanner, server, faults, outer, inner, producer_task,
                   listing_vars, tasks, yielded, sent, got>>
\* the walker yields the nodes of the page in hand, process_repository
\* enqueues them, the walker leaves page_semaphore and loops or ends.
\* asyncio does not suspend between the response and this hand-over (the
\* put on the unbounded queue never waits); the step is kept apart so that
\* the state with the slot held and the nodes in hand can be stated
WalkerDeliver(r) ==
    /\ task[r] = "page_yield"
    /\ LET items == Triples(r, local[r].page)
           count == local[r].pr_count + Len(items)
       IN  /\ pr_queue' = pr_queue \o items
           /\ puts' = puts \o items
           /\ local' = [local EXCEPT ![r].pr_count = count, ![r].page = << >>]
           /\ page_semaphore' = page_semaphore + 1
           /\ IF local[r].has_next_page
              THEN /\ task' = [task EXCEPT ![r] = "wait_page"]
                   /\ UNCHANGED <<tracker, repo_semaphore>>
              ELSE /\ task' = [task EXCEPT ![r] = "done"]
                   /\ tracker' = [tracker EXCEPT !.completed[r] = Append(@, count)]
                   /\ repo_semaphore' = repo_semaphore + 1
    /\ UNCHANGED <<split, fix, file_fixer, classifier, scanner, server, faults, outer, inner, producer_task,
                   listing_vars, tasks, yielded, sent, got>>

\* mutant: the consumer takes the newest item of the queue
ConsumerGetNewest ==
    /\ inner = "get"
    /\ pr_queue # << >>
    /\ pr_queue' = SubSeq(pr_queue, 1, Len(pr_queue) - 1)
    /\ IF pr_queue[Len(pr_queue)] = NoneItem
       THEN /\ inner' = IF producer_task = "done" THEN "done" ELSE "finally"
            /\ outer' = IF producer_task = "done" THEN "exhausted" ELSE outer
            /\ UNCHANGED yielded
       ELSE /\ inner' = "yielded"
            /\ yielded' = Append(yielded, pr_queue[Len(pr_queue)])
            /\ UNCHANGED outer
    /\ UNCHANGED <<split, fix, file_fixer, classifier, scanner, server, faults, producer_task, listing_vars, tasks,
                   task, local, repo_semaphore, page_semaphore, tracker, puts,
                   sent, got>>
\* the consumer loop of _scan_repositories gets an item: a triple goes
\* through scan_organization to the caller; the sentinel breaks the loop
\* and the finally awaits the producer task
ConsumerGet ==
    /\ inner = "get"
    /\ pr_queue # << >>
    /\ pr_queue' = Tail(pr_queue)
    /\ IF Head(pr_queue) = NoneItem
       THEN /\ inner' = IF producer_task = "done" THEN "done" ELSE "finally"
            /\ outer' = IF producer_task = "done" THEN "exhausted" ELSE outer
            /\ UNCHANGED yielded
       ELSE /\ inner' = "yielded"
            /\ yielded' = Append(yielded, Head(pr_queue))
            /\ UNCHANGED outer
    /\ UNCHANGED <<split, fix, file_fixer, classifier, scanner, server, faults, producer_task, listing_vars, tasks,
                   task, local, repo_semaphore, page_semaphore, tracker, puts,
                   sent, got>>

\* the caller asks for the next triple
CallerNext ==
    /\ outer = "iter"
    /\ inner = "yielded"
    /\ inner' = "get"
    /\ UNCHANGED <<split, fix, file_fixer, classifier, scanner, server, faults, outer, producer_task, listing_vars,
                   tasks, task, local, pr_queue, repo_semaphore, page_semaphore,
                   tracker, puts, yielded, sent, got>>

\* the caller stops early and scan_organization is closed: GeneratorExit at
\* its yield ends it at once; the generator of _scan_repositories it was
\* iterating is closed on its own, and its finally awaits the producer task
CallerStop ==
    /\ outer = "iter"
    /\ inner = "yielded"
    /\ outer' = "closed"
    /\ inner' = "finally"
    /\ UNCHANGED <<split, fix, file_fixer, classifier, scanner, server, faults, producer_task, listing_vars, tasks,
                   task, local, pr_queue, repo_semaphore, page_semaphore,
                   tracker, puts, yielded, sent, got>>

\* await producer_task returns: _scan_repositories ends, and with it
\* scan_organization if it is still iterating (its sequence is exhausted)
ConsumerFinally ==
    /\ inner = "finally"
    /\ producer_task = "done"
    /\ inner' = "done"
    /\ outer' = IF outer = "iter" THEN "exhausted" ELSE outer
    /\ UNCHANGED <<split, fix, file_fixer, classifier, scanner, server, faults, producer_task, listing_vars, tasks,
                   task, local, pr_queue, repo_semaphore, page_semaphore,
                   tracker, puts, yielded, sent, got>>

Next ==
    \/ CountResponse
    \/ ProducerStart
    \/ ListingResponse
    \/ ProducerFinish
    \/ \E r \in Repos : TaskStart(r)
    \/ \E r \in Repos : FirstPageResponse(r)
    \/ \E r \in Repos : WalkerAcquire(r)
    \/ \E r \in Repos : PageResponse(r)
    \/ \E r \in Repos : WalkerDeliver(r)
    \/ ConsumerGet
    \/ CallerNext
    \/ CallerStop
    \/ ConsumerFinally

Spec == Init /\ [][Next]_vars

(***************************************************************************)
(* The scan under the scheduling of asyncio: the event loop runs a         *)
(* coroutine that can step whenever there is one, and the transport        *)
(* answers every request (with a result or an error).  The scan includes   *)
(* drafts and the results carry the organization where the scanner reads   *)
(* it, so that every repository with open PRs is walked; a repository has  *)
(* no open PR or MaxPRs of them.                                           *)
(***************************************************************************)
LiveInit ==
    /\ Init
    /\ scanner.include_drafts
    /\ server.envelope
    /\ server.profile = 0
    /\ \A r \in Repos : server.prCount[r] \in {Absent, 0, MaxPRs}
LiveSpec == LiveInit /\ [][Next]_vars /\ WF_vars(Next)

(***************************************************************************)
(* The classifier on its own: a PR node is drawn from the nodes below and  *)
(* each of the two methods is applied to it once; no scan is running.      *)
(***************************************************************************)
MaxChecks == 2     \* entries of a statusCheckRollup

PENDING == <<"P", "E", "N", "D", "I", "N", "G">>
CheckNames == <<<<"A">>, <<"B">>>>
StatusNames == <<<<"c", "i">>>>
Conclusions ==
    <<Lower(FAILURE), FAILURE, <<"F", "a", "i", "l", "u", "r", "e">>, SUCCESS,
      <<"C", "A", "N", "C", "E", "L", "L", "E", "D">>,
      <<"t", "i", "m", "e", "d", "_", "o", "u", "t">>,
      <<"A", "C", "T", "I", "O", "N", "_", "R", "E", "Q", "U", "I", "R", "E", "D">>>>
States == <<FAILURE, <<"e", "r", "r", "o", "r">>, SUCCESS, PENDING>>
Mergeables == <<MERGEABLE, CONFLICTING, UNKNOWN, Lower(CONFLICTING)>>
MergeStates == <<CLEAN, BLOCKED, BEHIND, Lower(CLEAN), Lower(BEHIND)>>

\* the object with one key: its value is the i-th of the values, the key is
\* missing when i = 0 and its value is null when i is past the values
Field(key, values, i) ==
    IF i = 0 THEN EmptyObj
    ELSE [k \in {key} |-> IF i > Len(values) THEN NoneStr ELSE values[i]]
\* the choices of a field that may be missing, and of one that may be null too
Optional(values) == 0 .. Len(values)
Nullable(values) == 0 .. Len(values) + 1

\* an entry of the rollup, from its type and the choice of its two fields
EntryChoices ==
    ({"CheckRun"} \X Optional(CheckNames) \X Nullable(Conclusions))
        \cup ({"StatusContext"} \X Optional(StatusNames) \X Optional(States))
        \cup {<<"UnknownCheckType", 1, 2>>}
Entry(e) ==
    [__typename |-> e[1]]
        @@ (IF e[1] = "StatusContext" THEN Field("context", StatusNames, e[2])
            ELSE Field("name", CheckNames, e[2]))
        @@ (IF e[1] = "StatusContext" THEN Field("state", States, e[3])
            ELSE Field("conclusion", Conclusions, e[3]))
ContextLists == UNION {[1 .. n -> EntryChoices] : n \in 0 .. MaxChecks}

\* the links of the walk from the PR node to the entries, outermost first,
\* and the null of each
Links == <<"commits", "nodes", "statusCheckRollup", "contexts", "nodes">>
Nulls == <<None, NoneList, None, None, NoneList>>
\* the walk is whole and ends in a list of entries, or one link of it is
\* missing or null, or the list of commit nodes is empty
CommitsChoices ==
    {<<0, "whole", l>> : l \in ContextLists}
        \cup {<<i, how, << >>>> : i \in DOMAIN Links, how \in {"missing", "null"}}
        \cup {<<2, "empty", << >>>>}
LinkField(c, i, value) ==
    IF c[1] = i /\ c[2] = "missing" THEN EmptyObj
    ELSE [k \in {Links[i]} |-> IF c[1] = i /\ c[2] = "null" THEN Nulls[i] ELSE value]
CommitsField(c) ==
    LET contexts == [i \in 1 .. Len(c[3]) |-> Entry(c[3][i])]
        rollup == LinkField(c, 3, LinkField(c, 4, LinkField(c, 5, contexts)))
        nodes == IF c[1] = 2 /\ c[2] = "empty" THEN << >> ELSE <<[commit |-> rollup]>>
    IN  LinkField(c, 1, LinkField(c, 2, nodes))

PRChoices == Optional(Mergeables) \X Optional(MergeStates) \X Optional(<<TRUE>>) \X CommitsChoices
PRData(p) ==
    Field("mergeable", Mergeables, p[1]) @@ Field("mergeStateStatus", MergeStates, p[2])
        @@ Field("isDraft", <<TRUE>>, p[3]) @@ CommitsField(p[4])

ClassifierInit ==
    /\ \E p \in PRChoices : classifier = [Unclassified EXCEPT !.pr_data = PRData(p)]
    /\ scanner = [max_repo_tasks |-> 1, max_page_tasks |-> 1, include_drafts |-> FALSE]
    /\ server = [envelope |-> FALSE, nRepos |-> 0, prCount |-> [r \in Repos |-> Absent],
                 profile |-> 0]
    /\ faults = 0
    /\ outer = "count"
    /\ inner = "none"
    /\ producer_task = "none"
    /\ listing_vars = EmptyObj
    /\ tasks = << >>
    /\ task = [r \in Repos |-> "none"]
    /\ local = [r \in Repos |-> [pr_count |-> 0, cursor |-> Null, page |-> << >>,
                                 has_next_page |-> FALSE]]
    /\ pr_queue = << >>
    /\ repo_semaphore = scanner.max_repo_tasks
    /\ page_semaphore = scanner.max_page_tasks
    /\ tracker = [totals |-> << >>, started |-> [r \in Repos |-> 0],
                  completed |-> [r \in Repos |-> << >>], errors |-> 0]
    /\ puts = << >>
    /\ yielded = << >>
    /\ sent = [c \in {Listing} \cup Repos |-> << >>]
    /\ got = [c \in {Listing} \cup Repos |-> << >>]
    /\ split = Unsplit
    /\ fix = NotFixing
    /\ file_fixer = NotCalled

\* failing = scanner._extract_failing_checks(pr_data)
ExtractFailingChecks ==
    /\ classifier.failing = << >>
    /\ classifier' = [classifier EXCEPT
                        !.failing = <<_extract_failing_checks(classifier.pr_data)>>]
    /\ UNCHANGED <<split, fix, file_fixer, scanner, server, faults, outer, inner,
                   producer_task, listing_vars, tasks, task, local, pr_queue,
                   repo_semaphore, page_semaphore, tracker, puts, yielded, sent, got>>

\* is_blocked, reasons = scanner.is_pr_blocked(pr_data)
IsPRBlocked ==
    /\ classifier.blocked = << >>
    /\ classifier' = [classifier EXCEPT !.blocked = <<is_pr_blocked(classifier.pr_data)>>]
    /\ UNCHANGED <<split, fix, file_fixer, scanner, server, faults, outer, inner,
                   producer_task, listing_vars, tasks, task, local, pr_queue,
                   repo_semaphore, page_semaphore, tracker, puts, yielded, sent, got>>

ClassifierNext ==
    \/ ExtractFailingChecks
    \/ IsPRBlocked

ClassifierSpec == ClassifierInit /\ [][ClassifierNext]_vars

(***************************************************************************)
(* The scan at rest: the value of every variable of the scan before        *)
(* scan_organization is called, for the specifications of the parts that   *)
(* run without it.                                                         *)
(***************************************************************************)
ScanAtRest ==
    /\ scanner = [max_repo_tasks |-> 1, max_page_tasks |-> 1, include_drafts |-> FALSE]
    /\ server = [envelope |-> FALSE, nRepos |-> 0, prCount |-> [r \in Repos |-> Absent],
                 profile |-> 0]
    /\ faults = 0
    /\ outer = "count"
    /\ inner = "none"
    /\ producer_task = "none"
    /\ listing_vars = EmptyObj
    /\ tasks = << >>
    /\ task = [r \in Repos |-> "none"]
    /\ local = [r \in Repos |-> [pr_count |-> 0, cursor |-> Null, page |-> << >>,
                                 has_next_page |-> FALSE]]
    /\ pr_queue = << >>
    /\ repo_semaphore = scanner.max_repo_tasks
    /\ page_semaphore = scanner.max_page_tasks
    /\ tracker = [totals |-> << >>, started |-> [r \in Repos |-> 0],
                  completed |-> [r \in Repos |-> << >>], errors |-> 0]
    /\ puts = << >>
    /\ yielded = << >>
    /\ sent = [c \in {Listing} \cup Repos |-> << >>]
    /\ got = [c \in {Listing} \cup Repos |-> << >>]
    /\ classifier = Unclassified

(***************************************************************************)
(* _split_owner_repo on its own: a full name is drawn from the strings of  *)
(* at most MaxName characters over NameChars and handed to the function.   *)
(***************************************************************************)
MaxName == 4
NameChars == {"o", "r", "/"}
FullNames == UNION {[1 .. k -> NameChars] : k \in 0 .. MaxName}

SplitInit ==
    /\ \E full_name \in FullNames : split = [Unsplit EXCEPT !.full_name = full_name]
    /\ ScanAtRest
    /\ fix = NotFixing
    /\ file_fixer = NotCalled

\* owner, repo_name = self._split_owner_repo(full_name)
SplitOwnerRepo ==
    /\ split.returned = << >>
    /\ split' = [split EXCEPT !.returned = <<_split_owner_repo(split.full_name)>>]
    /\ UNCHANGED <<fix, file_fixer, classifier, scanner, server, faults, outer, inner,
                   producer_task, listing_vars, tasks, task, local, pr_queue,
                   repo_semaphore, page_semaphore, tracker, puts, yielded, sent, got>>

SplitNext == SplitOwnerRepo

SplitSpec == SplitInit /\ [][SplitNext]_vars

(***************************************************************************)
(* The command line: cli.scan_and_fix_organization collects the PRs the    *)
(* scan yields and then runs one process_pr task per PR under a semaphore  *)
(* of `workers` slots; cli.process_single_pr fetches one PR over REST and  *)
(* awaits process_pr on it.  The scan is the environment here: it yields   *)
(* PR nodes and ends.  Strings are sequences of characters, so that        *)
(* str.strip() is computed.  A task's log holds the mutating requests it   *)
(* issued and how each update ended, in order.                             *)
(***************************************************************************)
MaxWorkers == 2
MaxFound == 2
MaxFailedRuns == 1

\* str.strip()
Strip(s) ==
    LET inked == {i \in 1 .. Len(s) : s[i] # " "}
    IN  IF inked = {} THEN << >>
        ELSE SubSeq(s, CHOOSE i \in inked : \A j \in inked : i <= j,
                       CHOOSE i \in inked : \A j \in inked : i >= j)

Titles == {<<"t">>, <<"u">>}
Bodies == {<<" ", "b">>, <<"c">>}
\* a PR node of the scan: its body is a string when the node has one
ScannedPRs(number) ==
    {[number |-> number, title |-> title] : title \in Titles}
        \cup {[number |-> number, title |-> title, body |-> body] :
                title \in Titles, body \in Bodies}
\* a PR object of the REST API: its body is null when the PR has no description
FetchedPRs(number) ==
    {[number |-> number, title |-> title, body |-> body] :
        title \in Titles, body \in Bodies \cup {NoneStr}}
\* what get_first_commit_info returns when it does not return None
CommitInfos ==
    <<[subject |-> <<"t">>, body |-> <<"b">>], [subject |-> << >>, body |-> << >>]>>

NewTask(pr_data) ==
    [pc |-> "created", pr_data |-> pr_data, commit_subject |-> << >>,
     commit_body |-> << >>, changes_needed |-> FALSE, changes_made |-> << >>,
     updating |-> "", response |-> FALSE, failed_runs |-> 0, log |-> << >>,
     returned |-> << >>]

Return(t, value) == [t EXCEPT !.pc = "done", !.returned = <<value>>]
Logged(t, event) == [t EXCEPT !.log = Append(@, event)]

\* process_pr from "if not changes_needed" to its return or the comment request
CommentOrReturn(t) ==
    IF ~t.changes_needed THEN Return(t, FALSE)
    ELSE IF ~fix.dry_run /\ Len(t.changes_made) > 0
         THEN Logged([t EXCEPT !.pc = "comment"], "comment")
         ELSE Return(t, Len(t.changes_made) > 0)

\* process_pr from "if fix_body and commit_body" to the next request or return;
\* .strip() on a null body raises and the handler returns False
BodySection(t) ==
    IF fix.fix_body /\ t.commit_body # << >>
    THEN IF Get(t.pr_data, "body", << >>) = NoneStr
         THEN Logged(Return(t, FALSE), "raised")
         ELSE IF t.commit_body # Strip(Get(t.pr_data, "body", << >>))
              THEN IF fix.dry_run
                   THEN CommentOrReturn([t EXCEPT !.changes_needed = TRUE,
                                                  !.changes_made = Append(@, "body")])
                   ELSE Logged([t EXCEPT !.changes_needed = TRUE, !.pc = "patch",
                                         !.updating = "body"], "PATCH body")
              ELSE CommentOrReturn(t)
    ELSE CommentOrReturn(t)

\* process_pr from "if fix_title and commit_subject" to the next request or return
TitleSection(t) ==
    IF /\ fix.fix_title
       /\ t.commit_subject # << >>
       /\ t.commit_subject # Get(t.pr_data, "title", << >>)
    THEN IF fix.dry_run
         THEN BodySection([t EXCEPT !.changes_needed = TRUE,
                                    !.changes_made = Append(@, "title")])
         ELSE Logged([t EXCEPT !.changes_needed = TRUE, !.pc = "patch",
                               !.updating = "title"], "PATCH title")
    ELSE BodySection(t)

\* update_pr_title or update_pr_body returns "response is not None" and
\* process_pr goes on
AfterUpdate(t) ==
    LET made == IF t.response THEN [t EXCEPT !.changes_made = Append(@, t.updating)] ELSE t
    IN  IF t.updating = "title" THEN BodySection(made) ELSE CommentOrReturn(made)

FixInit ==
    /\ \E workers \in 1 .. MaxWorkers, dry_run \in BOOLEAN, fix_title \in BOOLEAN,
          fix_body \in BOOLEAN, target \in {"organization", "pr"} :
            /\ fix_title \/ fix_body
            /\ fix = [phase |-> IF target = "pr" THEN "fetch" ELSE "scan",
                      target |-> target, workers |-> workers, dry_run |-> dry_run,
                      fix_title |-> fix_title, fix_body |-> fix_body,
                      blocked_prs |-> << >>, semaphore |-> 0, tasks |-> << >>,
                      fixed_count |-> 0]
    /\ ScanAtRest
    /\ split = Unsplit
    /\ file_fixer = NotCalled

FixUnchanged ==
    UNCHANGED <<split, file_fixer, classifier, scanner, server, faults, outer, inner,
                producer_task, listing_vars, tasks, task, local, pr_queue,
                repo_semaphore, page_semaphore, tracker, puts, yielded, sent, got>>

\* the task of blocked_prs[i] moves to t; leaving "async with semaphore"
\* releases the slot
Step(i, t) ==
    fix' = [fix EXCEPT !.tasks[i] = t,
                       !.semaphore = IF t.pc = "done" THEN @ + 1 ELSE @]

\* scan_and_fix_organization: the scan yields a PR and the loop body stores it
CollectPR ==
    /\ fix.phase = "scan"
    /\ Len(fix.blocked_prs) < MaxFound
    /\ \E pr_data \in ScannedPRs(Len(fix.blocked_prs) + 1) :
          fix' = [fix EXCEPT !.blocked_prs = Append(@, pr_data)]
    /\ FixUnchanged

\* scan_and_fix_organization: the scan is exhausted or raises; with no PR
\* the function returns, otherwise it creates the semaphore and one task
\* per PR and awaits them
ScanEnds ==
    /\ fix.phase = "scan"
    /\ fix' = IF fix.blocked_prs = << >>
              THEN [fix EXCEPT !.phase = "done"]
              ELSE [fix EXCEPT !.phase = "gather",
                               !.semaphore = fix.workers,
                               !.tasks = [i \in 1 .. Len(fix.blocked_prs) |->
                                            NewTask(fix.blocked_prs[i])]]
    /\ FixUnchanged

\* process_single_pr: the GET of the PR returns; without PR data the command
\* exits, otherwise process_pr is awaited under Semaphore(1): it takes the
\* slot and requests the commits
FetchResponse ==
    /\ fix.phase = "fetch"
    /\ \/ fix' = [fix EXCEPT !.phase = "done"]
       \/ \E pr_data \in FetchedPRs(1) :
            fix' = [fix EXCEPT !.phase = "gather",
                               !.blocked_prs = <<pr_data>>,
                               !.semaphore = 0,
                               !.tasks = <<[NewTask(pr_data) EXCEPT !.pc = "commit_info"]>>]
    /\ FixUnchanged

\* process_pr: async with semaphore, then the request of get_first_commit_info
\* mutant: process_pr does not wait for a slot
AcquireNoWait(i) ==
    /\ fix.phase = "gather"
    /\ i <= Len(fix.tasks)
    /\ fix.tasks[i].pc = "created"
    /\ fix' = [fix EXCEPT !.tasks[i].pc = "commit_info", !.semaphore = @ - 1]
    /\ FixUnchanged
Acquire(i) ==
    /\ fix.phase = "gather"
    /\ i <= Len(fix.tasks)
    /\ fix.tasks[i].pc = "created"
    /\ fix.semaphore > 0
    /\ fix' = [fix EXCEPT !.tasks[i].pc = "commit_info", !.semaphore = @ - 1]
    /\ FixUnchanged

\* get_first_commit_info returns None (no commits, an error) or the subject
\* and body of the first commit
CommitInfoResponse(i) ==
    /\ fix.phase = "gather"
    /\ i <= Len(fix.tasks)
    /\ fix.tasks[i].pc = "commit_info"
    /\ \E k \in 0 .. Len(CommitInfos) :
          IF k = 0 THEN Step(i, Return(fix.tasks[i], FALSE))
          ELSE Step(i, TitleSection([fix.tasks[i] EXCEPT
                                        !.commit_subject = Strip(CommitInfos[k].subject),
                                        !.commit_body = Strip(CommitInfos[k].body)]))
    /\ FixUnchanged

\* update_pr_title, update_pr_body: the PATCH returns a response, returns
\* None or raises; after a response rerun_failed_checks is awaited
PatchResponse(i) ==
    /\ fix.phase = "gather"
    /\ i <= Len(fix.tasks)
    /\ fix.tasks[i].pc = "patch"
    /\ \E outcome \in {"response", "none", "raises"} :
          IF outcome = "response"
          THEN Step(i, Logged([fix.tasks[i] EXCEPT !.pc = "rerun", !.response = TRUE], "ok"))
          ELSE Step(i, AfterUpdate(Logged([fix.tasks[i] EXCEPT !.response = FALSE],
                                          "failed")))
    /\ FixUnchanged

\* rerun_failed_checks: the PR and its check runs are read; any failure
\* ends it; otherwise the first failed run is re-requested
RerunLookup(i) ==
    /\ fix.phase = "gather"
    /\ i <= Len(fix.tasks)
    /\ fix.tasks[i].pc = "rerun"
    /\ \E failed_runs \in 0 .. MaxFailedRuns :
          IF failed_runs = 0
          THEN Step(i, AfterUpdate(fix.tasks[i]))
          ELSE Step(i, Logged([fix.tasks[i] EXCEPT !.pc = "rerequest",
                                                   !.failed_runs = failed_runs],
                              "rerequest"))
    /\ FixUnchanged

\* rerun_failed_checks: a re-request returns or raises; the next failed run
\* is re-requested, or the update function returns
RerequestResponse(i) ==
    /\ fix.phase = "gather"
    /\ i <= Len(fix.tasks)
    /\ fix.tasks[i].pc = "rerequest"
    /\ IF fix.tasks[i].failed_runs > 1
       THEN Step(i, Logged([fix.tasks[i] EXCEPT !.failed_runs = @ - 1], "rerequest"))
       ELSE Step(i, AfterUpdate([fix.tasks[i] EXCEPT !.failed_runs = 0]))
    /\ FixUnchanged

\* create_pr_comment returns (its errors are swallowed) and process_pr returns
CommentResponse(i) ==
    /\ fix.phase = "gather"
    /\ i <= Len(fix.tasks)
    /\ fix.tasks[i].pc = "comment"
    /\ Step(i, Return(fix.tasks[i], Len(fix.tasks[i].changes_made) > 0))
    /\ FixUnchanged

\* asyncio.gather returns (or the awaited process_pr does): results are counted
Gather ==
    /\ fix.phase = "gather"
    /\ \A i \in 1 .. Len(fix.tasks) : fix.tasks[i].pc = "done"
    /\ fix' = [fix EXCEPT !.phase = "done",
                          !.fixed_count = Cardinality({i \in 1 .. Len(fix.tasks) :
                                                         fix.tasks[i].returned = <<TRUE>>})]
    /\ FixUnchanged

FixNext ==
    \/ CollectPR
    \/ ScanEnds
    \/ FetchResponse
    \/ \E i \in 1 .. MaxFound : Acquire(i)
    \/ \E i \in 1 .. MaxFound : CommitInfoResponse(i)
    \/ \E i \in 1 .. MaxFound : PatchResponse(i)
    \/ \E i \in 1 .. MaxFound : RerunLookup(i)
    \/ \E i \in 1 .. MaxFound : RerequestResponse(i)
    \/ \E i \in 1 .. MaxFound : CommentResponse(i)
    \/ Gather

FixSpec == FixInit /\ [][FixNext]_vars

(***************************************************************************)
(* The file fixer: one call of PRFileFixer._fix_pr_with_git.  The files    *)
(* matching file_pattern are numbered; for each, the local fix either      *)
(* modifies it or leaves it alone.  Every git operation succeeds or        *)
(* fails.  effects holds what the call did beyond its temporary clone:     *)
(* the amended commit, the push, the comment requested.                    *)
(***************************************************************************)
MaxFiles == 3
MatchingFiles == UNION {[1 .. k -> BOOLEAN] : k \in 0 .. MaxFiles}
\* the files fixer.apply_fix or fixer.remove_lines_matching modifies, in order
ModifiedOf(matching_files) ==
    LET F[k \in 0 .. Len(matching_files)] ==
            IF k = 0 THEN << >>
            ELSE IF matching_files[k] THEN Append(F[k - 1], k) ELSE F[k - 1]
    IN  F[Len(matching_files)]

GitHubFixResult(success, files_modified) ==
    [success |-> success, files_modified |-> files_modified]

FileFixerInit ==
    /\ \E dry_run \in BOOLEAN, matching_files \in MatchingFiles :
          file_fixer = [pc |-> "clone", dry_run |-> dry_run,
                        matching_files |-> matching_files, files_modified |-> << >>,
                        effects |-> << >>, raised |-> FALSE, returned |-> << >>]
    /\ ScanAtRest
    /\ split = Unsplit
    /\ fix = NotFixing

FileFixerUnchanged ==
    UNCHANGED <<split, fix, classifier, scanner, server, faults, outer, inner,
                producer_task, listing_vars, tasks, task, local, pr_queue,
                repo_semaphore, page_semaphore, tracker, puts, yielded, sent, got>>

\* an operation raised: one of the except clauses returns success=False
ReturnsFailure ==
    file_fixer' = [file_fixer EXCEPT !.pc = "done", !.raised = TRUE,
                                     !.returned = <<GitHubFixResult(FALSE, << >>)>>]
ReturnsResult(success, files_modified) ==
    file_fixer' = [file_fixer EXCEPT
                     !.pc = "done",
                     !.returned = <<GitHubFixResult(success, files_modified)>>]

\* git clone --branch head_ref into the temporary directory
Clone ==
    /\ file_fixer.pc = "clone"
    /\ \/ file_fixer' = [file_fixer EXCEPT !.pc = "fix"]
       \/ ReturnsFailure
    /\ FileFixerUnchanged

\* find_files and the loop over matching_files, then the two early returns:
\* nothing modified, or dry_run
\* mutant: dry_run is not looked at
FindAndFixNoDryRun ==
    /\ file_fixer.pc = "fix"
    /\ \/ LET files_modified == ModifiedOf(file_fixer.matching_files)
          IN  IF files_modified = << >> THEN ReturnsResult(TRUE, << >>)
              ELSE file_fixer' = [file_fixer EXCEPT !.pc = "stage",
                                                    !.files_modified = files_modified]
       \/ ReturnsFailure
    /\ FileFixerUnchanged
FindAndFix ==
    /\ file_fixer.pc = "fix"
    /\ \/ LET files_modified == ModifiedOf(file_fixer.matching_files)
          IN  IF files_modified = << >> THEN ReturnsResult(TRUE, << >>)
              ELSE IF file_fixer.dry_run THEN ReturnsResult(TRUE, files_modified)
              ELSE file_fixer' = [file_fixer EXCEPT !.pc = "stage",
                                                    !.files_modified = files_modified]
       \/ ReturnsFailure
    /\ FileFixerUnchanged

\* git config, git add of each file, git diff --cached --quiet: return code
\* 0 means nothing is staged
Stage ==
    /\ file_fixer.pc = "stage"
    /\ \/ file_fixer' = [file_fixer EXCEPT !.pc = "amend"]
       \/ ReturnsResult(TRUE, << >>)
       \/ ReturnsFailure
    /\ FileFixerUnchanged

\* git commit --amend --no-edit
Amend ==
    /\ file_fixer.pc = "amend"
    /\ \/ file_fixer' = [file_fixer EXCEPT !.pc = "push", !.effects = Append(@, "commit")]
       \/ ReturnsFailure
    /\ FileFixerUnchanged

\* git push --force-with-lease, then the comment is requested
Push ==
    /\ file_fixer.pc = "push"
    /\ \/ file_fixer' = [file_fixer EXCEPT !.pc = "comment",
                                           !.effects = @ \o <<"push", "comment">>]
       \/ ReturnsFailure
    /\ FileFixerUnchanged

\* create_comment returns or raises (suppressed); the call returns
FileFixerComment ==
    /\ file_fixer.pc = "comment"
    /\ ReturnsResult(TRUE, file_fixer.files_modified)
    /\ FileFixerUnchanged

FileFixerNext ==
    \/ Clone
    \/ FindAndFix
    \/ Stage
    \/ Amend
    \/ Push
    \/ FileFixerComment

FileFixerSpec == FileFixerInit /\ [][FileFixerNext]_vars

(***************************************************************************)
(* What the organization holds, for the statements below.                  *)
(***************************************************************************)
Range(s) == {s[i] : i \in 1 .. Len(s)}
Count(s, x) == Cardinality({i \in 1 .. Len(s) : s[i] = x})
Qualifies(r) == r <= server.nRepos /\ server.prCount[r] > 0
\* the PRs of repository r that pass the draft filter, in page order
ExpectedSeq(r) ==
    LET all == [n \in 1 .. (IF server.prCount[r] > 0 THEN server.prCount[r] ELSE 0) |-> PRNode(server.profile, n)]
        keep == SelectSeq(all, LAMBDA n : n.number \in {k \in 1 .. MaxPRs + 1 :
                    scanner.include_drafts \/ DraftOf(k) # "true"})
    IN  [i \in 1 .. Len(keep) |-> <<Org, NameOf(r), keep[i]>>]
Expected == UNION {Range(ExpectedSeq(r)) : r \in {q \in Repos : Qualifies(q)}}
\* the triples of repository r among a sequence of queue items
TriplesOf(s, r) == SelectSeq(s, LAMBDA item : item # NoneItem /\ item[2] = NameOf(r))
NumPages(total, len) == IF total <= 0 THEN 1 ELSE (total + len - 1) \div len
RepoHeld == Cardinality({r \in Repos : task[r] \in {"first_req", "wait_page", "page_req", "page_yield"}})
PageHeld == Cardinality({r \in Repos : task[r] \in {"page_req", "page_yield"}})
Unfinished == {r \in Repos : task[r] \notin {"none", "done"}}
\* the results carry the organization where the scanner reads it
ReadsOrganization == server.envelope

(***************************************************************************)
(* C1.  When the sequence of scan_organization is exhausted and every      *)
(* request was answered with a result the scanner reads, every PR that     *)
(* passes the draft filter, of every repository with totalCount > 0, has   *)
(* been yielded exactly once.                                              *)
(***************************************************************************)
C1_EveryPRYieldedOnce ==
    (outer = "exhausted" /\ faults = 0 /\ ReadsOrganization) =>
        /\ Range(yielded) = Expected
        /\ Len(yielded) = Cardinality(Expected)

(***************************************************************************)
(* C2.  The producer puts the sentinel exactly once, as its last act,      *)
(* after every spawned repository task has finished, whether requests      *)
(* raised or not: the sentinel is the last item ever put, and the          *)
(* sequence is exhausted only when every triple put has been yielded.      *)
(***************************************************************************)
C2_OneSentinelAfterAllTasks ==
    /\ Count(puts, NoneItem) = (IF producer_task = "done" THEN 1 ELSE 0)
    /\ producer_task = "done" =>
        /\ puts[Len(puts)] = NoneItem
        /\ Unfinished = {}
    /\ outer = "exhausted" => puts = yielded \o <<NoneItem>>

\* a scan in which a listing request raised after tasks had been spawned,
\* and which still ended on the sentinel with triples yielded
C2_Witness ==
    /\ outer = "exhausted"
    /\ Raised \in Range(got[Listing])
    /\ Len(yielded) > 1
    /\ Len(tasks) > 1

(***************************************************************************)
(* C3.  Once scan_organization has been closed by a caller that stopped    *)
(* early, the producer task has completed and no repository task is        *)
(* pending.                                                                *)
(***************************************************************************)
C3_ExitAwaitsProducer ==
    outer = "closed" => (producer_task = "done" /\ Unfinished = {})

(***************************************************************************)
(* C4.  The tasks inside repo_semaphore are never more than                *)
(* max_repo_tasks and the walkers inside page_semaphore never more than    *)
(* max_page_tasks.                                                         *)
(***************************************************************************)
C4_SlotsWithinCeilings ==
    /\ RepoHeld <= scanner.max_repo_tasks
    /\ PageHeld <= scanner.max_page_tasks

\* more tasks than repository slots: every slot held, a task waiting for
\* one, and every page slot held too
C4_Witness ==
    /\ RepoHeld = scanner.max_repo_tasks
    /\ \E r \in Repos : task[r] = "created"
    /\ PageHeld = scanner.max_page_tasks

(***************************************************************************)
(* C5.  The PR-page requests in flight, first-page fetches and walker page *)
(* fetches together, are never more than max_page_tasks.                   *)
(***************************************************************************)
C5_PageRequestsWithinCeiling ==
    Cardinality({r \in Repos : task[r] \in {"first_req", "page_req"}})
        <= scanner.max_page_tasks

(***************************************************************************)
(* C6.  When a request of one repository's processing raised, the scan     *)
(* still yields every qualifying PR of every other repository before its   *)
(* sequence is exhausted.                                                  *)
(***************************************************************************)
C6_OtherRepositoriesYielded ==
    (outer = "exhausted" /\ ReadsOrganization
        /\ \E r \in Repos : Raised \in Range(got[r])) =>
        \A q \in Repos :
            (Qualifies(q) /\ Raised \notin Range(got[q]))
                => Range(ExpectedSeq(q)) \subseteq Range(yielded)

(***************************************************************************)
(* C7.  When a request for a PR page of a repository raised, the tracker   *)
(* has received add_error by the time the repository task has ended.       *)
(***************************************************************************)
C7_RequestErrorReported ==
    \A r \in Repos :
        (task[r] = "done" /\ Raised \in Range(got[r])) => tracker.errors > 0

(***************************************************************************)
(* C8.  Both walkers, on results they read and with no request raising,    *)
(* issue one request per page of the connection and no request twice,      *)
(* hand on what every page holds exactly once, and end: the listing walker *)
(* has spawned the repositories with open PRs in listing order when it     *)
(* ends, and a repository whose walker ran has, when its task ends, the    *)
(* PRs of all its pages on the queue once each, in page order.             *)
(***************************************************************************)
Increasing(s) == \A i \in 1 .. Len(s) - 1 : s[i] < s[i + 1]
ListingEnded == producer_task \in {"gather", "done"}
QualifyingSeq == SelectSeq([r \in 1 .. server.nRepos |-> r], Qualifies)
IsPageInfo(info) == "hasNextPage" \in DOMAIN info
OnListingPage(i) ==
    {r \in Repos : /\ r > sent[Listing][i]
                   /\ r <= Min(sent[Listing][i] + ListingPageNodes, server.nRepos)}
IsDraftPR(item) == item # NoneItem /\ Get(item[3], "isDraft", FALSE)
\* every request of repository r's task returned a page holding r
WasRead(r) ==
    /\ Len(got[r]) >= 1
    /\ \A i \in 1 .. Len(got[r]) : "hasNextPage" \in DOMAIN got[r][i]
C11_DraftFilter ==
    /\ ~scanner.include_drafts =>
        /\ \A i \in 1 .. Len(puts) : ~IsDraftPR(puts[i])
        /\ \A i \in 1 .. Len(yielded) : ~IsDraftPR(yielded[i])
    /\ \A r \in Repos :
        /\ (task[r] = "done" /\ WasRead(r)) => TriplesOf(puts, r) = ExpectedSeq(r)
        /\ outer = "exhausted" => TriplesOf(yielded, r) = TriplesOf(puts, r)

\* drafts are excluded and a repository of three PR pages was read to its
\* end: the drafts of its first and of its last page were withheld, the
\* nodes with isDraft false or absent were yielded
C11_Witness ==
    /\ ~scanner.include_drafts
    /\ outer = "exhausted"
    /\ \E r \in Repos :
        /\ server.prCount[r] = MaxPRs
        /\ WasRead(r)
        /\ Len(got[r]) = 3
        /\ DraftOf(2) = "true" /\ DraftOf(MaxPRs) = "true"
        /\ [i \in 1 .. Len(TriplesOf(yielded, r)) |-> TriplesOf(yielded, r)[i][3].number]
            = <<1, 3, 4>>

(***************************************************************************)
(* C12.  When the listing request of page k raised, it is the walker's     *)
(* last request and the producer goes on to gather; when the sequence is   *)
(* then exhausted (results read, no other request raised) the sentinel was *)
(* put last and every repository with open PRs of the pages before k has   *)
(* had its task run and all its qualifying PRs yielded.                    *)
(***************************************************************************)
C12_ListingErrorEndsWalk ==
    \A k \in 1 .. Len(got[Listing]) :
        got[Listing][k] = Raised =>
            /\ Len(sent[Listing]) = k
            /\ ListingEnded
            /\ (outer = "exhausted" /\ ReadsOrganization
                    /\ \A q \in Repos : Raised \notin Range(got[q])) =>
                /\ puts[Len(puts)] = NoneItem
                /\ \A i \in 1 .. k - 1 : \A r \in OnListingPage(i) :
                    Qualifies(r) =>
                        /\ task[r] = "done"
                        /\ Range(ExpectedSeq(r)) \subseteq Range(yielded)

(***************************************************************************)
(* C13.  When the results carry no organization where the scanner reads    *)
(* it, or the organization has no repositories: the total reported is 0,   *)
(* the listing walker ends after one request without error, no task is     *)
(* spawned, the sentinel is the only item ever put, nothing is yielded,    *)
(* and the scan can always take a step until its sequence is exhausted.    *)
(***************************************************************************)
NothingToScan == ~ReadsOrganization \/ server.nRepos = 0
C13_NothingToScan ==
    NothingToScan =>
        /\ \A i \in 1 .. Len(tracker.totals) : tracker.totals[i] = 0
        /\ Len(sent[Listing]) <= 1
        /\ tasks = << >>
        /\ tracker.errors = 0
        /\ \A i \in 1 .. Len(puts) : puts[i] = NoneItem
        /\ yielded = << >>
        /\ ListingEnded => producer_task = "done"
        /\ outer # "closed"
        /\ (outer # "exhausted" => ENABLED Next)

\* an organization with open PRs behind results that carry no organization
\* where the scanner reads it: every request answered, the scan at its end
C13_Witness ==
    /\ ~ReadsOrganization
    /\ faults = 0
    /\ \E r \in Repos : Qualifies(r)
    /\ inner = "done"
    /\ tracker.totals = <<0>>
    /\ Len(got[Listing]) = 1

(***************************************************************************)
(* C14.  When the counting query raised, the tracker was told a total of 0 *)
(* and the scan phase ran: at exhaustion the triples yielded are the same  *)
(* set, each once, as those of a scan of the same organization in which    *)
(* no request raised.                                                      *)
(***************************************************************************)
\* the counting query is the one request whose response is not kept in got
CountRaised ==
    faults > Cardinality({<<c, i>> \in ({Listing} \cup Repos) \X (1 .. MaxPRs + 1) :
                            i <= Len(got[c]) /\ got[c][i] = Raised})
\* the repositories a task's requests find on the page the server returns
Reached(r) ==
    LET data == OrgReposData(server, FirstPageVars(owner(r)))
    IN  ~Falsy(FindRepo(data.organization.repositories.nodes, repo_name(r)))
\* what a scan of this organization yields when its scan phase is answered
ScanYield ==
    UNION {Range(ExpectedSeq(r)) :
            r \in {q \in Repos : ReadsOrganization /\ Qualifies(q) /\ Reached(q)}}
C14_CountFailureNotFatal ==
    /\ CountRaised => (outer # "count" /\ tracker.totals = <<0>>)
    /\ (outer = "exhausted" /\ (faults = 0 \/ (faults = 1 /\ CountRaised))) =>
        /\ Range(yielded) = ScanYield
        /\ Len(yielded) = Cardinality(ScanYield)

\* the counting query raised, for an organization with repositories, and
\* the scan yielded the PRs of three pages
C14_Witness ==
    /\ CountRaised
    /\ outer = "exhausted"
    /\ tracker.totals = <<0>>
    /\ server.nRepos >= 2
    /\ Len(yielded) >= 3
    /\ \E r \in Repos : Len(got[r]) = 3

(***************************************************************************)
(* C15.  update_total_repositories is called exactly once, by the step     *)
(* that answers the one counting query, with the organization's            *)
(* repository count (0 when the query raised or the result carries no      *)
(* organization the scanner reads); until then no listing request has been *)
(* issued, no task spawned or started, nothing put and nothing yielded.    *)
(***************************************************************************)
C15_CountFirst ==
    /\ Len(tracker.totals) = (IF outer = "count" THEN 0 ELSE 1)
    /\ outer = "count" =>
        /\ producer_task = "none"
        /\ sent[Listing] = << >>
        /\ tasks = << >>
        /\ \A r \in Repos : task[r] = "none" /\ tracker.started[r] = 0
        /\ puts = << >>
        /\ yielded = << >>
    /\ outer # "count" =>
        tracker.totals[1] = (IF CountRaised \/ ~ReadsOrganization THEN 0 ELSE server.nRepos)

\* the total of a full organization was reported, and later the listing
\* was walked, repositories were started and PRs yielded
C15_Witness ==
    /\ tracker.totals = <<MaxRepos>>
    /\ Len(sent[Listing]) = 2
    /\ \E r \in Repos : tracker.started[r] = 1
    /\ yielded # << >>

(***************************************************************************)
(* C16.  complete_repository is called once for a repository, when its     *)
(* task ends, and the count it is given is the number of triples the task  *)
(* has put on the queue; the task's running pr_count is that number at     *)
(* every moment.  Nodes the draft filter rejected are not counted.         *)
(***************************************************************************)
C16_CompletedCount ==
    \A r \in Repos :
        /\ local[r].pr_count = Len(TriplesOf(puts, r))
        /\ Len(tracker.completed[r]) = (IF task[r] = "done" THEN 1 ELSE 0)
        /\ task[r] = "done" => tracker.completed[r][1] = Len(TriplesOf(puts, r))

\* a repository of five PRs, two of them drafts that were filtered out,
\* read over three pages and completed with a count of three
C16_Witness ==
    /\ ~scanner.include_drafts
    /\ \E r \in Repos :
        /\ server.prCount[r] = MaxPRs
        /\ Len(got[r]) = 3
        /\ tracker.completed[r] = <<3>>
        /\ MaxPRs = Len(TriplesOf(puts, r)) + 2

(***************************************************************************)
(* C17.  Once the sequence of scan_organization has ended, exhausted or    *)
(* closed by a caller that stopped early, with or without requests having  *)
(* raised, every slot of repo_semaphore and of page_semaphore is free.     *)
(***************************************************************************)
C17_SlotsFreeAtEnd ==
    outer \in {"exhausted", "closed"} =>
        /\ repo_semaphore = scanner.max_repo_tasks
        /\ page_semaphore = scanner.max_page_tasks

(***************************************************************************)
(* C18.  The page slots held are exactly those of the walkers with a page  *)
(* request in flight: a walker holds none before it issues its request,    *)
(* none after the request has returned or raised, and none while the       *)
(* page's nodes are handed to the repository task and put on the queue.    *)
(***************************************************************************)
C18_SlotOnlyWhileInFlight ==
    scanner.max_page_tasks - page_semaphore
        = Cardinality({r \in Repos : task[r] = "page_req"})

(***************************************************************************)
(* C19.  The tasks spawned are, in listing order, the repositories with    *)
(* open PRs of the listing pages read so far, however many slots of        *)
(* repo_semaphore are free; the tasks inside the semaphore are exactly the *)
(* slots taken, which are never more than there are.  (That the tasks      *)
(* created and unfinished do exceed max_repo_tasks while discovery goes on *)
(* is the witness.)                                                        *)
(***************************************************************************)
DiscoveredSoFar ==
    SelectSeq([r \in 1 .. Min(Len(got[Listing]) * ListingPageNodes, server.nRepos) |-> r],
              Qualifies)
C19_SpawnedWithoutWaiting ==
    /\ repo_semaphore >= 0
    /\ RepoHeld = scanner.max_repo_tasks - repo_semaphore
    /\ (ReadsOrganization /\ Raised \notin Range(got[Listing])) => tasks = DiscoveredSoFar
    /\ \A i \in 1 .. Len(tasks) : task[tasks[i]] # "none"

\* the second listing request is in flight while every repository slot is
\* held, and more tasks are created and unfinished than there are slots
C19_Witness ==
    /\ producer_task = "listing"
    /\ Len(sent[Listing]) = 2
    /\ repo_semaphore = 0
    /\ RepoHeld = scanner.max_repo_tasks
    /\ Cardinality(Unfinished) > scanner.max_repo_tasks

(***************************************************************************)
(* C20.  Whatever the position of a repository in the listing: when the    *)
(* scanner reads the results, the first-page request of its task, if it    *)
(* returned, found the repository's own pullRequests connection, and when  *)
(* the task has ended without a request raising, the triples it put are    *)
(* the qualifying PRs of that repository, all pages, in order.             *)
(***************************************************************************)
C20_FetchFindsNamedRepository ==
    ReadsOrganization =>
        \A r \in Repos :
            /\ (Len(got[r]) >= 1 /\ got[r][1] # Raised) => IsPageInfo(got[r][1])
            /\ (task[r] = "done" /\ Raised \notin Range(got[r])) =>
                TriplesOf(puts, r) = ExpectedSeq(r)

(***************************************************************************)
(* C21.  When the transport hands the counting query's data object over    *)
(* unwrapped, {organization: {repositories: {totalCount: n}}}, and the     *)
(* query did not raise, the total _count_org_repositories reports is n.    *)
(***************************************************************************)
C21_CountReadsUnwrappedData ==
    (~server.envelope /\ outer # "count" /\ ~CountRaised) =>
        tracker.totals[1] = server.nRepos

(***************************************************************************)
(* C22.  The scan does not filter by blocked status.  The triples          *)
(* (owner, repo_name, number) a scan has yielded when it is exhausted and  *)
(* no request raised are the PRs, of the repositories its requests reach,  *)
(* that pass the draft filter: a set that does not depend on               *)
(* server.profile, so two scans whose PR nodes differ only in mergeable,   *)
(* mergeStateStatus and the check contexts yield the same triples.  At     *)
(* every moment the yielded triples are among them.                        *)
(***************************************************************************)
NumberTriples(s) == {<<s[i][1], s[i][2], s[i][3].number>> : i \in 1 .. Len(s)}
\* the numbered PRs a scan yields, from everything but the merge profile
ScanNumbers ==
    UNION {{<<Org, NameOf(r), n>> :
                n \in {k \in 1 .. server.prCount[r] :
                            scanner.include_drafts \/ DraftOf(k) # "true"}} :
            r \in {q \in Repos : ReadsOrganization /\ Qualifies(q) /\ Reached(q)}}
C22_BlockedStatusNotFiltered ==
    /\ NumberTriples(yielded) \subseteq ScanNumbers
    /\ (outer = "exhausted" /\ faults = 0) => NumberTriples(yielded) = ScanNumbers

\* a scan that skips drafts is exhausted, and it yielded a PR the classifier
\* finds blocked and a PR it finds not blocked
C22_Witness ==
    /\ outer = "exhausted"
    /\ faults = 0
    /\ ~scanner.include_drafts
    /\ \E i, j \in 1 .. Len(yielded) :
        /\ is_pr_blocked(yielded[i][3])[1]
        /\ ~is_pr_blocked(yielded[j][3])[1]

(***************************************************************************)
(* The caller of the scan, scan_and_fix_organization: it appends every     *)
(* triple the scan yields to blocked_prs and, when the scan has ended,     *)
(* creates one process_pr task for each element of blocked_prs.            *)
(***************************************************************************)
blocked_prs == yielded
process_pr == IF outer = "exhausted" THEN blocked_prs ELSE << >>

(***************************************************************************)
(* C23.  Every PR the caller has collected in blocked_prs, and every PR it *)
(* hands to process_pr, is one the classifier finds blocked.               *)
(***************************************************************************)
C23_OnlyBlockedProcessed ==
    /\ \A i \in 1 .. Len(blocked_prs) : is_pr_blocked(blocked_prs[i][3])[1]
    /\ \A i \in 1 .. Len(process_pr) : is_pr_blocked(process_pr[i][3])[1]

(***************************************************************************)
(* What the classifier was given and what it returned, for the statements  *)
(* below.                                                                  *)
(***************************************************************************)
pr_data == classifier.pr_data
Extracted == classifier.failing # << >>
failing_checks == classifier.failing[1]
Classified == classifier.blocked # << >>
is_blocked == classifier.blocked[1][1]
reasons == classifier.blocked[1][2]
HasValue(obj, key, value) == key \in DOMAIN obj /\ obj[key] = value
IsFailingReason(reason) ==
    /\ Len(reason) > Len(FAILING_CHECKS)
    /\ SubSeq(reason, 1, Len(FAILING_CHECKS)) = FAILING_CHECKS
\* the place of a reason in the fixed order, 0 for any other string
Rank(reason) ==
    IF reason = MERGE_CONFLICTS THEN 1
    ELSE IF IsFailingReason(reason) THEN 2
    ELSE IF reason = BRANCH_PROTECTION THEN 3
    ELSE IF reason = BEHIND_BASE THEN 4
    ELSE 0
Ranks == {Rank(reasons[i]) : i \in 1 .. Len(reasons)}

(***************************************************************************)
(* C24.  The reasons is_pr_blocked returns are a subsequence of the fixed  *)
(* order Merge conflicts, Failing checks: ..., Blocked by branch           *)
(* protection rules, Behind base branch; each is there exactly when its    *)
(* condition holds (mergeable is CONFLICTING; the list of failing checks   *)
(* is not empty; mergeStateStatus is BLOCKED; mergeStateStatus is BEHIND); *)
(* is_blocked is true exactly when there is a reason.                      *)
(***************************************************************************)
C24_ReasonsInFixedOrder ==
    Classified =>
        /\ \A i \in 1 .. Len(reasons) : Rank(reasons[i]) # 0
        /\ \A i, j \in 1 .. Len(reasons) : i < j => Rank(reasons[i]) < Rank(reasons[j])
        /\ 1 \in Ranks <=> HasValue(pr_data, "mergeable", CONFLICTING)
        /\ 2 \in Ranks <=> _extract_failing_checks(pr_data) # << >>
        /\ 3 \in Ranks <=> HasValue(pr_data, "mergeStateStatus", BLOCKED)
        /\ 4 \in Ranks <=> HasValue(pr_data, "mergeStateStatus", BEHIND)
        /\ is_blocked <=> reasons # << >>

\* a conflicting PR under branch protection with failing checks was
\* classified: three reasons
C24_Witness ==
    /\ Classified
    /\ is_blocked
    /\ Len(reasons) = 3
    /\ Ranks = {1, 2, 3}

(***************************************************************************)
(* C25.  However many checks fail, is_pr_blocked returns one reason for    *)
(* them: "Failing checks: " followed by the failing identifiers, in the    *)
(* order _extract_failing_checks gives them, with ", " between two of      *)
(* them.  The number of reasons is the number of conditions that hold,     *)
(* whatever the number of failing checks.                                  *)
(***************************************************************************)
\* where the k-th identifier starts in the reason, counted from 0
RECURSIVE Offset(_, _)
Offset(ids, k) ==
    IF k = 1 THEN Len(FAILING_CHECKS)
    ELSE Offset(ids, k - 1) + Len(ids[k - 1]) + Len(COMMA)
Joined(reason, ids) ==
    /\ IsFailingReason(reason)
    /\ Len(reason) = Offset(ids, Len(ids)) + Len(ids[Len(ids)])
    /\ \A k \in 1 .. Len(ids) :
        /\ SubSeq(reason, Offset(ids, k) + 1, Offset(ids, k) + Len(ids[k])) = ids[k]
        /\ k > 1 => SubSeq(reason, Offset(ids, k) - Len(COMMA) + 1, Offset(ids, k)) = COMMA
Conditions ==
    {c \in {"mergeable", "failing", "mergeStateStatus"} :
        \/ c = "mergeable" /\ HasValue(pr_data, "mergeable", CONFLICTING)
        \/ c = "failing" /\ _extract_failing_checks(pr_data) # << >>
        \/ c = "mergeStateStatus" /\ \/ HasValue(pr_data, "mergeStateStatus", BLOCKED)
                                     \/ HasValue(pr_data, "mergeStateStatus", BEHIND)}
C25_FailingChecksGrouped ==
    Classified =>
        LET ids == _extract_failing_checks(pr_data)
            grouped == {i \in 1 .. Len(reasons) : IsFailingReason(reasons[i])}
        IN  /\ Cardinality(grouped) = (IF ids = << >> THEN 0 ELSE 1)
            /\ \A i \in grouped : Joined(reasons[i], ids)
            /\ Len(reasons) = Cardinality(Conditions)

\* a CheckRun and a StatusContext fail and nothing else holds: one reason
C25_Witness ==
    /\ Classified
    /\ _extract_failing_checks(pr_data) = <<<<"A">>, <<"c", "i">>>>
    /\ reasons = <<FAILING_CHECKS \o <<"A", ",", " ", "c", "i">>>>

(***************************************************************************)
(* C26.  As stated: for every PR node whose check and status entries are   *)
(* all successful, or that has none, is_pr_blocked returns (false, []).    *)
(***************************************************************************)
Successful(entry) ==
    \/ /\ HasValue(entry, "__typename", "CheckRun")
       /\ "conclusion" \in DOMAIN entry
       /\ Lower(entry.conclusion) = Lower(SUCCESS)
    \/ /\ HasValue(entry, "__typename", "StatusContext")
       /\ "state" \in DOMAIN entry
       /\ Lower(entry.state) = Lower(SUCCESS)
AllSuccessfulOrAbsent ==
    \A i \in 1 .. Len(Contexts(pr_data)) : Successful(Contexts(pr_data)[i])
MergeCondition ==
    \/ HasValue(pr_data, "mergeable", CONFLICTING)
    \/ HasValue(pr_data, "mergeStateStatus", BLOCKED)
    \/ HasValue(pr_data, "mergeStateStatus", BEHIND)
C26_SuccessfulChecksNotBlocked ==
    (Classified /\ AllSuccessfulOrAbsent) => (~is_blocked /\ reasons = << >>)

(***************************************************************************)
(* C26, amended.  For every PR node whose check and status entries are     *)
(* all successful, or that has none, is_pr_blocked returns no "Failing     *)
(* checks" reason, and it returns (false, []) exactly when, in addition,   *)
(* mergeable is not CONFLICTING and mergeStateStatus is neither BLOCKED    *)
(* nor BEHIND.                                                             *)
(***************************************************************************)
C26_SuccessfulChecksGiveNoReason ==
    (Classified /\ AllSuccessfulOrAbsent) =>
        /\ \A i \in 1 .. Len(reasons) : ~IsFailingReason(reasons[i])
        /\ (~is_blocked /\ reasons = << >>) <=> ~MergeCondition

\* a mergeable, clean PR with a successful CheckRun and a successful
\* StatusContext was classified as not blocked
C26_Witness ==
    /\ Classified
    /\ Len(Contexts(pr_data)) = 2
    /\ AllSuccessfulOrAbsent
    /\ Contexts(pr_data)[1].__typename # Contexts(pr_data)[2].__typename
    /\ HasValue(pr_data, "mergeable", MERGEABLE)
    /\ HasValue(pr_data, "mergeStateStatus", CLEAN)
    /\ classifier.blocked = <<<<FALSE, << >>>>>>

(***************************************************************************)
(* C27.  A mergeable other than CONFLICTING gives no "Merge conflicts", a  *)
(* mergeStateStatus other than BLOCKED gives no "Blocked by branch         *)
(* protection rules" and one other than BEHIND no "Behind base branch",    *)
(* whether the field is missing, UNKNOWN, CLEAN or any other string.       *)
(* isDraft changes nothing: the node without it is classified the same,    *)
(* and a PR with no merge condition and no failing check is not blocked    *)
(* and has no reason.                                                      *)
(***************************************************************************)
WithoutDraft(pr) == [k \in DOMAIN pr \ {"isDraft"} |-> pr[k]]
C28_LowerCaseMergeState ==
    (Classified /\ _extract_failing_checks(pr_data) = << >>) =>
        /\ (/\ HasValue(pr_data, "mergeable", MERGEABLE)
            /\ HasValue(pr_data, "mergeStateStatus", Lower(BEHIND))) => is_blocked
        /\ (/\ HasValue(pr_data, "mergeStateStatus", Lower(CLEAN))
            /\ ~HasValue(pr_data, "mergeable", CONFLICTING)) => ~is_blocked

(***************************************************************************)
(* C29.  _extract_failing_checks returns, in the order of the entries and  *)
(* with repetitions kept, the name of every CheckRun that has a name and   *)
(* whose conclusion is failure, cancelled, timed_out or action_required in *)
(* any mix of upper and lower case, and the context of every StatusContext *)
(* that has a context and whose state is failure or error in any case;     *)
(* every other entry is left out.                                          *)
(***************************************************************************)
SameLetter(a, b) == a = b \/ \E i \in DOMAIN UPPER : {a, b} = {UPPER[i], LOWER[i]}
SameIgnoringCase(s, t) == Len(s) = Len(t) /\ \A i \in 1 .. Len(s) : SameLetter(s[i], t[i])
Fails(entry) ==
    \/ /\ HasValue(entry, "__typename", "CheckRun")
       /\ "name" \in DOMAIN entry
       /\ "conclusion" \in DOMAIN entry
       /\ \E c \in FAILING_CONCLUSIONS : SameIgnoringCase(entry.conclusion, c)
    \/ /\ HasValue(entry, "__typename", "StatusContext")
       /\ "context" \in DOMAIN entry
       /\ "state" \in DOMAIN entry
       /\ \E c \in FAILING_STATES : SameIgnoringCase(entry.state, c)
Identifier(entry) == IF entry.__typename = "CheckRun" THEN entry.name ELSE entry.context
C29_FailingChecksInOrder ==
    Extracted =>
        LET entries == Contexts(pr_data)
            failed == {i \in 1 .. Len(entries) : Fails(entries[i])}
        IN  /\ Len(failing_checks) = Cardinality(failed)
            /\ \A i \in failed :
                failing_checks[Cardinality({j \in failed : j <= i})] = Identifier(entries[i])

\* two CheckRuns of the same name failed, their conclusions written in
\* different cases: the name was returned twice
C29_Witness ==
    /\ Extracted
    /\ Len(Contexts(pr_data)) = 2
    /\ failing_checks = <<<<"A">>, <<"A">>>>
    /\ Contexts(pr_data)[1].conclusion # Contexts(pr_data)[2].conclusion
    /\ Lower(Contexts(pr_data)[1].conclusion) = Lower(Contexts(pr_data)[2].conclusion)

(***************************************************************************)
(* C30.  The classifier is total.  For a node in which commits,            *)
(* commits.nodes, statusCheckRollup, contexts or contexts.nodes is         *)
(* missing, null or empty, and for the empty mapping, what                 *)
(* _extract_failing_checks returns is the empty list and what              *)
(* is_pr_blocked returns is (false, []), unless mergeable or               *)
(* mergeStateStatus give a reason: then it is true with the merge reasons  *)
(* only.                                                                   *)
(***************************************************************************)
Lacks(obj, key, null) ==
    \/ key \notin DOMAIN obj
    \/ obj[key] = null
    \/ obj[key] = << >>
Incomplete(pr) ==
    IF Lacks(pr, "commits", None) \/ Lacks(pr.commits, "nodes", NoneList) THEN TRUE
    ELSE LET commit == pr.commits.nodes[1].commit
         IN  IF Lacks(commit, "statusCheckRollup", None) THEN TRUE
             ELSE IF Lacks(commit.statusCheckRollup, "contexts", None) THEN TRUE
             ELSE Lacks(commit.statusCheckRollup.contexts, "nodes", NoneList)
C30_ClassifierTotal ==
    /\ (Extracted /\ Incomplete(pr_data)) => failing_checks = << >>
    /\ (Classified /\ Incomplete(pr_data)) =>
        /\ \A i \in 1 .. Len(reasons) : Rank(reasons[i]) \in {1, 3, 4}
        /\ is_blocked <=> MergeCondition
        /\ ~MergeCondition => classifier.blocked = <<<<FALSE, << >>>>>>

\* a PR behind its base whose commit has a null statusCheckRollup went
\* through both methods: no failing check, one reason
C30_Witness ==
    /\ pr_data = [mergeStateStatus |-> BEHIND,
                  commits |-> [nodes |-> <<[commit |-> [statusCheckRollup |-> None]]>>]]
    /\ classifier.failing = <<<< >>>>
    /\ classifier.blocked = <<<<TRUE, <<BEHIND_BASE>>>>>>

(***************************************************************************)
(* C31.  _split_owner_repo never raises; for a full name "owner/name" in   *)
(* which the part before the first "/" and the part after it are both      *)
(* non-empty it returns (owner, name), and for every other string (no "/", *)
(* an empty owner part or an empty name part) it returns the sentinel      *)
(* ("unknown", "unknown").                                                 *)
(***************************************************************************)
WasSplit == split.returned # << >>
OwnerPart(full_name) == SubSeq(full_name, 1, FirstSlash(full_name) - 1)
NamePart(full_name) == SubSeq(full_name, FirstSlash(full_name) + 1, Len(full_name))
WellFormed(full_name) ==
    /\ FirstSlash(full_name) # 0
    /\ OwnerPart(full_name) # << >>
    /\ NamePart(full_name) # << >>
C31_SplitOrSentinel ==
    WasSplit =>
        split.returned[1] = IF WellFormed(split.full_name)
                            THEN <<OwnerPart(split.full_name), NamePart(split.full_name)>>
                            ELSE <<Unknown, Unknown>>

(***************************************************************************)
(* C32.  With dry_run = True process_pr issues no mutating request (no     *)
(* PATCH of the title or body, no re-request of a check run, no comment)   *)
(* and still returns True exactly when a title or body change would be     *)
(* made.                                                                   *)
(***************************************************************************)
Mutating == {"PATCH title", "PATCH body", "rerequest", "comment"}
Returned(t) == t.returned # << >>
WouldChangeTitle(t) ==
    /\ fix.fix_title
    /\ t.commit_subject # << >>
    /\ t.commit_subject # Get(t.pr_data, "title", << >>)
WouldChangeBody(t) ==
    /\ fix.fix_body
    /\ t.commit_body # << >>
    /\ t.commit_body # Strip(Str(t.pr_data, "body"))
C32_DryRunMutatesNothing ==
    fix.dry_run =>
        \A i \in 1 .. Len(fix.tasks) :
            LET t == fix.tasks[i]
            IN  /\ \A k \in 1 .. Len(t.log) : t.log[k] \notin Mutating
                /\ Returned(t) =>
                      (t.returned[1] <=> (WouldChangeTitle(t) \/ WouldChangeBody(t)))

(***************************************************************************)
(* C33.  In dry-run mode the file fixer makes no remote change (no commit, *)
(* no push or contents-API update, no PR comment) and returns success=True *)
(* with the files that would be modified.                                  *)
(***************************************************************************)
FixerReturned == file_fixer.returned # << >>
WouldBeModified == ModifiedOf(file_fixer.matching_files)
IsPrefix(s, t) == Len(s) <= Len(t) /\ s = SubSeq(t, 1, Len(s))
C34_PageOrderPerRepository ==
    \A r \in Repos :
        /\ IsPrefix(TriplesOf(yielded, r), TriplesOf(puts, r))
        /\ IsPrefix(TriplesOf(puts, r), ExpectedSeq(r))
C34_Witness ==
    /\ outer = "exhausted"
    /\ Len(TriplesOf(yielded, 1)) = MaxPRs
    /\ task[2] = "done"
    /\ scanner.max_repo_tasks = MaxSlots

(***************************************************************************)
(* C35.  Every repository task calls start_repository exactly once, before *)
(* any triple of its repository is enqueued, and then exactly one of       *)
(* complete_repository and add_error, after its last triple is enqueued    *)
(* and before it releases its repository slot: never both, never neither.  *)
(***************************************************************************)
Entered(r) == task[r] \notin {"none", "created"}
HoldsRepoSlot(r) == task[r] \in {"first_req", "wait_page", "page_req", "page_yield"}
Reports(r) == Len(tracker.completed[r])
HoldsPageSlot(r) == task[r] \in {"page_req", "page_yield"}
PageSlotsHeld == scanner.max_page_tasks - page_semaphore
RepoSlotsHeld == scanner.max_repo_tasks - repo_semaphore
C37_PageSlotsWithinRepoSlots ==
    /\ \A r \in Repos : HoldsPageSlot(r) => HoldsRepoSlot(r)
    /\ PageSlotsHeld = Cardinality({r \in Repos : HoldsPageSlot(r)})
    /\ RepoSlotsHeld = Cardinality({r \in Repos : HoldsRepoSlot(r)})
    /\ PageSlotsHeld <= RepoSlotsHeld
    /\ PageSlotsHeld <= Min(scanner.max_repo_tasks, scanner.max_page_tasks)
C37_Witness ==
    /\ PageSlotsHeld = 1
    /\ RepoSlotsHeld = 2
    /\ scanner.max_page_tasks = MaxSlots

(***************************************************************************)
(* C36.  The scan is deadlock-free for every max_repo_tasks >= 1 and       *)
(* max_page_tasks >= 1 and any number of repositories and pages: as long   *)
(* as the transport answers each request, in no reachable state is the     *)
(* producer, a repository task or the consumer unfinished while none of    *)
(* them can step, and the consumer eventually receives the sentinel        *)
(* (unless the caller stopped the scan before).  Under the scheduling of   *)
(* LiveSpec a state in which something is unfinished and nothing can step  *)
(* would last forever, so both parts are: the producer, every task and the *)
(* consumer eventually finish, the sentinel received or the scan closed.   *)
(***************************************************************************)
ScanFinished ==
    /\ producer_task = "done"
    /\ \A r \in Repos : task[r] \in {"none", "done"}
    /\ inner = "done"
SentinelReceived == NoneItem \in Range(puts) /\ NoneItem \notin Range(pr_queue)
C36_DeadlockFree == <>(ScanFinished /\ (SentinelReceived \/ outer = "closed"))
C36_Witness ==
    /\ SentinelReceived
    /\ ScanFinished
    /\ scanner.max_repo_tasks = 1
    /\ scanner.max_page_tasks = 1
    /\ server.nRepos = MaxRepos
    /\ Len(TriplesOf(yielded, 1)) = MaxPRs
    /\ faults = MaxFaults

(***************************************************************************)
(* C38.  scan_and_fix_organization is two-phase: no process_pr call and no *)
(* mutating request is made before the scan's sequence has ended, and      *)
(* during the fix phase at most `workers` process_pr bodies run            *)
(* concurrently.                                                           *)
(***************************************************************************)
InBody(t) == t.pc \notin {"created", "done"}
Running == {i \in 1 .. Len(fix.tasks) : InBody(fix.tasks[i])}
C38_TwoPhase ==
    fix.target = "organization" =>
        /\ fix.phase = "scan" => fix.tasks = << >>
        /\ \A i \in 1 .. Len(fix.tasks) :
              fix.tasks[i].pr_data = fix.blocked_prs[i]
        /\ Cardinality(Running) <= fix.workers
        /\ fix.phase = "gather" => fix.semaphore = fix.workers - Cardinality(Running)
C38_Witness ==
    /\ fix.target = "organization"
    /\ fix.workers = 1
    /\ ~fix.dry_run
    /\ Len(fix.tasks) = MaxFound
    /\ fix.tasks[1].pc = "created"
    /\ fix.tasks[2].pc = "rerequest"

(***************************************************************************)
(* C39.  Outside dry-run, process_pr posts at most one summary comment per *)
(* PR, only after all title and body update attempts and only if at least  *)
(* one update succeeded; it re-requests failed checks only after a         *)
(* successful update; it returns True exactly when at least one update     *)
(* succeeded; and any exception inside process_pr yields False.            *)
(***************************************************************************)
Events(t, event) == {k \in 1 .. Len(t.log) : t.log[k] = event}
Patches(t) == Events(t, "PATCH title") \cup Events(t, "PATCH body")
C39_CommentAfterUpdates ==
    ~fix.dry_run =>
        \A i \in 1 .. Len(fix.tasks) :
            LET t == fix.tasks[i]
            IN  /\ Cardinality(Events(t, "comment")) <= 1
                /\ \A c \in Events(t, "comment") :
                      /\ \A p \in Patches(t) : p < c
                      /\ \E k \in Events(t, "ok") : k < c
                      /\ t.pc \in {"comment", "done"}
                /\ \A q \in Events(t, "rerequest") :
                      \E k \in Events(t, "ok") :
                          /\ k < q
                          /\ \A j \in k + 1 .. q : t.log[j] = "rerequest"
                /\ Returned(t) => (t.returned[1] <=> Events(t, "ok") # {})
                /\ (Returned(t) /\ Events(t, "raised") # {}) => ~t.returned[1]

====
